---- MODULE Spec2Model ----
(***************************************************************************)
(* The ISIMIP debiaser of src/PACKAGE_NAME/debias/_isimip.py as a state    *)
(* machine: construction of the attrs class with its validators, and one   *)
(* call of apply_location with the month loop and the eight steps of       *)
(* _apply_on_window.                                                       *)
(*                                                                         *)
(* Numbers.  Series values are integers.  np.inf is the integer Inf, which *)
(* is larger than every finite value the model computes, and -np.inf is    *)
(* NegInf, so the comparisons of the source keep their meaning.            *)
(***************************************************************************)
EXTENDS Integers, Sequences, FiniteSets, TLC

\* np.inf, the default of lower_bound and lower_threshold
Inf == 1000
\* -np.inf, the default of upper_bound and upper_threshold
NegInf == 0 - Inf

\* np.nan, which the fit of an empty sample and the quantile of an empty
\* series yield; larger than Inf, so that np.sort puts it last
NaN == 2000

\* largest finite bound or threshold a constructor call is given
MaxBound == 1

\* largest number of samples of the cm_future drawn from Values in a call
\* of apply_location and of _apply_on_window
MaxLen == 2

VARIABLES
    args,       \* the keyword arguments of the call
    self,       \* the attributes of the instance
    pc,         \* where the program is
    raised,     \* the exception the current call has raised, "" for none
    obs_hist, cm_hist, cm_future,   \* the series given to apply_location
    time_obs_hist, time_cm_hist, time_cm_future,    \* their time labels
    i_month,    \* the loop variable of apply_location
    debiased_cm_future,     \* the output array of apply_location
    result,     \* what apply_location has returned
    runs,       \* history: the calls of _apply_on_window made so far
    writes,     \* history: the months that assigned each output position
    win,        \* the local variables of the running _apply_on_window
    library,    \* what numpy and scipy do in the running _apply_on_window
    marginal    \* the local variables of the running calculate_marginal_bias

cvars == <<args, self, pc, raised>>

wvars == <<win, library>>

avars == <<obs_hist, cm_hist, cm_future, time_obs_hist, time_cm_hist,
           time_cm_future, i_month, debiased_cm_future, result, runs, writes>>

vars == <<args, self, pc, raised, obs_hist, cm_hist, cm_future, time_obs_hist,
          time_cm_hist, time_cm_future, i_month, debiased_cm_future, result,
          runs, writes, win, library, marginal>>

(***************************************************************************)
(* Python values of the arguments whose type the validators test: a type   *)
(* name and a number (a bool is 0 or 1, as in Python).                     *)
(***************************************************************************)
Py(type, v) == [type |-> type, v |-> v]

\* isinstance(x, int): bool is a subclass of int
IsInstanceInt(x) == x.type \in {"int", "bool"}

IsInstanceBool(x) == x.type = "bool"

\* the default of reasonable_physical_range
NoRange == [isNone |-> TRUE, elems |-> <<>>, numeric |-> TRUE]

\* a list given as reasonable_physical_range; numeric says whether every
\* element is an int or a float
Range(elems, numeric) == [isNone |-> FALSE, elems |-> elems, numeric |-> numeric]

(***************************************************************************)
(* The attribute defaults of the class (attrs.field(default=...)).         *)
(***************************************************************************)
Defaults ==
    [ reasonable_physical_range |-> NoRange,
      variable |-> "unknown",
      lower_bound |-> Inf,
      lower_threshold |-> Inf,
      upper_bound |-> NegInf,
      upper_threshold |-> NegInf,
      trend_removal_with_significance_test |-> TRUE,
      trend_transfer_only_for_values_within_threshold |-> TRUE,
      event_likelihood_adjustment |-> FALSE,
      ecdf_method |-> "inverted_cdf",
      iecdf_method |-> "step_function",
      running_window_mode |-> TRUE,
      running_window_length |-> Py("int", 31),
      running_window_step_length |-> Py("int", 1) ]

\* the attributes without a default
Required == {"distribution", "trend_preservation_method", "detrending"}

Fields == Required \cup DOMAIN Defaults

\* an argument of a call: given with a value, or left to the default
Given(x) == [given |-> TRUE, v |-> x]

NotGiven(f) == [given |-> FALSE, v |-> Defaults[f]]

\* the attributes the generated __init__ sets from the arguments kw
Attributes(kw) == [ f \in Fields |-> kw[f].v ]

(***************************************************************************)
(* The validators, in the order of the attributes.  Each yields the        *)
(* exception it raises, "" when the value passes.                          *)
(***************************************************************************)
distribution_validator(value) ==
    IF value \in {"rv_continuous", "rv_discrete", "rv_histogram", "StatisticalModel"}
    THEN "" ELSE "TypeError"

trend_preservation_method_validator(value) ==
    IF value \in {"additive", "multiplicative", "mixed", "bounded"}
    THEN "" ELSE "ValueError"

detrending_validator(value) ==
    IF IsInstanceBool(value) THEN "" ELSE "TypeError"

\* validate_reasonable_physical_range without its comparison of the entries
validate_reasonable_physical_range_unordered(value) ==
    IF value.isNone THEN ""
    ELSE IF Len(value.elems) # 2 THEN "ValueError"
    ELSE IF ~value.numeric THEN "ValueError"
    ELSE ""

validate_reasonable_physical_range(value) ==
    IF value.isNone THEN ""
    ELSE IF Len(value.elems) # 2 THEN "ValueError"
    ELSE IF ~value.numeric THEN "ValueError"
    ELSE IF ~(value.elems[1] < value.elems[2]) THEN "ValueError"
    ELSE ""

ecdf_method_validator(value) ==
    IF value \in {"kernel_density", "linear_interpolation", "step_function"}
    THEN "" ELSE "ValueError"

iecdf_method_validator(value) ==
    IF value \in {"inverted_cdf", "averaged_inverted_cdf", "closest_observation",
                  "interpolated_inverted_cdf", "hazen", "weibull", "linear",
                  "median_unbiased", "normal_unbiased"}
    THEN "" ELSE "ValueError"

running_window_length_validator(value) ==
    IF ~IsInstanceInt(value) THEN "TypeError"
    ELSE IF ~(value.v > 0) THEN "ValueError"
    ELSE ""

running_window_step_length_validator(value) ==
    IF ~IsInstanceInt(value) THEN "TypeError"
    ELSE IF ~(value.v > 0) THEN "ValueError"
    ELSE ""

\* the first exception of a sequence of validator results
FirstRaised(results) ==
    IF \A i \in DOMAIN results : results[i] = "" THEN ""
    ELSE results[CHOOSE i \in DOMAIN results :
                    /\ results[i] # ""
                    /\ \A j \in 1..(i - 1) : results[j] = ""]

\* the validators the generated __init__ runs on the attributes s.  The
\* bounds, the thresholds and the three behaviour flags are validated for
\* their type only, which the arguments of the model always have.
Validate(s) ==
    FirstRaised(<<
        distribution_validator(s.distribution),
        trend_preservation_method_validator(s.trend_preservation_method),
        detrending_validator(s.detrending),
        validate_reasonable_physical_range(s.reasonable_physical_range),
        ecdf_method_validator(s.ecdf_method),
        iecdf_method_validator(s.iecdf_method),
        running_window_length_validator(s.running_window_length),
        running_window_step_length_validator(s.running_window_step_length) >>)

(***************************************************************************)
(* has_lower_threshold, has_lower_bound, has_upper_threshold and           *)
(* has_upper_bound.  No attribute of the model is None.                    *)
(***************************************************************************)
has_lower_threshold(s) == s.lower_threshold > NegInf

has_lower_bound(s) == s.lower_bound > NegInf

has_upper_threshold(s) == s.upper_threshold < Inf

has_upper_bound(s) == s.upper_bound < Inf

(***************************************************************************)
(* Arrays.  A series is a sequence, a boolean mask is the set of the        *)
(* positions it selects.                                                   *)
(***************************************************************************)
Idx(x) == 1..Len(x)

\* np.isfinite(x)
IsFinite(x) == NegInf < x /\ x < Inf

Min2(a, b) == IF a <= b THEN a ELSE b

Max2(a, b) == IF a >= b THEN a ELSE b

\* the smallest integer >= a / b, for b > 0
CeilDiv(a, b) == (a + b - 1) \div b

\* np.argsort(np.argsort(x))[i], counted from 1: the rank of x[i] in x, equal
\* values ranked by position
Rank(x, i) ==
    1 + Cardinality({ j \in Idx(x) : x[j] < x[i] \/ (x[j] = x[i] /\ j < i) })

\* np.argsort(x), counted from 1
Argsort(x) == [ r \in Idx(x) |-> CHOOSE i \in Idx(x) : Rank(x, i) = r ]

\* np.sort(x)
Sort(x) == [ r \in Idx(x) |-> x[CHOOSE i \in Idx(x) : Rank(x, i) = r] ]

\* x[mask]
Take(x, mask) ==
    LET F[i \in 0..Len(x)] ==
            IF i = 0 THEN <<>>
            ELSE IF i \in mask THEN Append(F[i - 1], x[i]) ELSE F[i - 1]
    IN F[Len(x)]

\* Put assigning vals from its last value to its first
Put_reversed(x, mask, vals) ==
    [ i \in Idx(x) |->
        IF i \in mask THEN vals[Cardinality({ j \in mask : j >= i })] ELSE x[i] ]

\* x after x[mask] = vals, for vals with one value per selected position
Put(x, mask, vals) ==
    [ i \in Idx(x) |->
        IF i \in mask THEN vals[Cardinality({ j \in mask : j <= i })] ELSE x[i] ]

\* x after x[mask] = v for a single value v
Fill(x, mask, v) == [ i \in Idx(x) |-> IF i \in mask THEN v ELSE x[i] ]

\* a + b and a - b for a float a and a finite b: nan stays nan and an
\* infinite a stays a
Add(a, b) ==
    IF a = NaN \/ b = NaN THEN NaN ELSE IF a >= Inf \/ a <= NegInf THEN a ELSE a + b

Sub(a, b) ==
    IF a = NaN \/ b = NaN THEN NaN ELSE IF a >= Inf \/ a <= NegInf THEN a ELSE a - b

\* the positions mask[start:stop] selects in an array of n entries (Python
\* slices: a negative index counts from the end, all are clipped to 0..n)
Slice(n, start, stop) ==
    LET clip(k) == IF k < 0 THEN Max2(k + n, 0) ELSE Min2(k, n)
    IN { i \in 1..n : clip(start) < i /\ i <= clip(stop) }

\* the sorted sequences of n values of the set S
SortedSeqs(n, S) ==
    { q \in [1..n -> S] : \A i \in 1..(n - 1) : q[i] <= q[i + 1] }

(***************************************************************************)
(* utils, scipy and the statistical method.  The statistical method of the *)
(* model is the empirical distribution of the sample: fit yields the       *)
(* sorted sample, cdf the share of the sample <= x, ppf the smallest       *)
(* sample value whose cdf reaches p.  A probability is a fraction          *)
(* [num, den].  ecdf and iecdf are the same step functions.                *)
(***************************************************************************)
distribution_fit(sample) == Sort(sample)

distribution_cdf(x, fit) ==
    [ i \in Idx(x) |->
        [num |-> Cardinality({ j \in Idx(fit) : fit[j] <= x[i] }), den |-> Len(fit)] ]

\* p has passed threshold_cdf_vals, which keeps it away from 0 and from 1:
\* a p of 0 maps to the smallest sample value
distribution_ppf(p, fit) ==
    [ i \in Idx(p) |->
        IF Len(fit) = 0 THEN NaN
        ELSE fit[Max2(1, CeilDiv(p[i].num * Len(fit), p[i].den))] ]

ecdf(x, y) ==
    [ i \in Idx(y) |->
        [num |-> Cardinality({ j \in Idx(x) : x[j] <= y[i] }), den |-> Len(x)] ]

iecdf(x, p) ==
    [ i \in Idx(p) |->
        IF Len(x) = 0 THEN NaN
        ELSE Sort(x)[Max2(1, CeilDiv(p[i].num * Len(x), p[i].den))] ]

\* sort_array_like_another_one(x, y) for sorted x: x[k] goes where y has
\* its k-th smallest entry
sort_array_like_another_one(x, y) == [ i \in Idx(y) |-> x[Rank(y, i)] ]

\* the distinct years of a label array, ascending
UniqueYears(years) == Sort(Take(years, { i \in Idx(years) :
                                            \A j \in 1..(i - 1) : years[j] # years[i] }))

SumSeq(x) ==
    LET F[i \in 0..Len(x)] == IF i = 0 THEN 0 ELSE F[i - 1] + x[i]
    IN F[Len(x)]

\* get_yearly_mean(x, years): the mean of the samples of each year.  Series
\* are fixed-point numbers: a division rounds down to the unit.
get_yearly_mean(x, years) ==
    [ k \in Idx(UniqueYears(years)) |->
        LET of_year == { i \in Idx(x) : years[i] = UniqueYears(years)[k] }
        IN SumSeq(Take(x, of_year)) \div Cardinality(of_year) ]

\* scipy.stats.linregress(np.arange(n), y).pvalue < 0.05.  One point has
\* pvalue nan; two points have pvalue 0.0 unless they are equal; n = 3, 4
\* points have a t statistic with n - 2 degrees of freedom, of
\* pvalue < 0.05 when r^2 = A^2 / (B C) exceeds 0.99384 (n = 3) or 0.9025
\* (n = 4), with A = n sum(t y) - sum(t) sum(y), B = n sum(t^2) - sum(t)^2,
\* C = n sum(y^2) - sum(y)^2; equal points have r = 0.  The series of the
\* model have at most four years.
linregress_significant(y) ==
    LET pvalue_below(n, A, B, C) ==
            CASE n = 2 -> y[1] # y[2]
              [] n = 3 -> C > 0 /\ 100000 * A * A > 99384 * B * C
              [] n = 4 -> C > 0 /\ 400 * A * A > 361 * B * C
              [] OTHER -> FALSE
        sum_t == SumSeq([ i \in Idx(y) |-> i - 1 ])
    IN  pvalue_below(Len(y),
            Len(y) * SumSeq([ i \in Idx(y) |-> (i - 1) * y[i] ]) - sum_t * SumSeq(y),
            Len(y) * SumSeq([ i \in Idx(y) |-> (i - 1) * (i - 1) ]) - sum_t * sum_t,
            Len(y) * SumSeq([ i \in Idx(y) |-> y[i] * y[i] ]) - SumSeq(y) * SumSeq(y))

\* regression.slope * (years - np.mean(years)) at year index t = 0..n-1:
\* slope = 6 (2 sum(t y) - (n - 1) sum(y)) / (n (n^2 - 1)) and
\* t - mean = (2 t - n + 1) / 2
linregress_trend(y, t) ==
    LET n == Len(y)
        ty == [ i \in Idx(y) |-> (i - 1) * y[i] ]
    IN (3 * (2 * SumSeq(ty) - (n - 1) * SumSeq(y)) * (2 * t - n + 1))
            \div (n * (n * n - 1))

(***************************************************************************)
(* Non public helpers: General                                             *)
(***************************************************************************)
_get_mask_for_values_beyond_lower_threshold(s, x) ==
    { i \in Idx(x) : x[i] # NaN /\ x[i] <= s.lower_threshold }

_get_mask_for_values_beyond_upper_threshold(s, x) ==
    { i \in Idx(x) : x[i] # NaN /\ x[i] >= s.upper_threshold }

_get_mask_for_values_between_thresholds(s, x) ==
    { i \in Idx(x) : x[i] # NaN /\ x[i] > s.lower_threshold /\ x[i] < s.upper_threshold }

_get_values_between_thresholds(s, x) ==
    Take(x, _get_mask_for_values_between_thresholds(s, x))

\* _check_reasonable_physical_range testing cm_future before cm_hist
_check_reasonable_physical_range_cm_future_first(s, obs, cmh, cmf) ==
    LET lo == s.reasonable_physical_range.elems[1]
        hi == s.reasonable_physical_range.elems[2]
        outside(x) == \E i \in Idx(x) : x[i] < lo \/ x[i] > hi
    IN  IF s.reasonable_physical_range.isNone THEN ""
        ELSE IF outside(obs) THEN "obs_hist"
        ELSE IF outside(cmf) THEN "cm_future"
        ELSE IF outside(cmh) THEN "cm_hist"
        ELSE ""

\* the series whose values lie outside [lo, hi], "" for none, in the order
\* of the three tests
_check_reasonable_physical_range(s, obs, cmh, cmf) ==
    LET lo == s.reasonable_physical_range.elems[1]
        hi == s.reasonable_physical_range.elems[2]
        outside(x) == \E i \in Idx(x) : x[i] < lo \/ x[i] > hi
    IN  IF s.reasonable_physical_range.isNone THEN ""
        ELSE IF outside(obs) THEN "obs_hist"
        ELSE IF outside(cmh) THEN "cm_hist"
        ELSE IF outside(cmf) THEN "cm_future"
        ELSE ""

(***************************************************************************)
(* Non public helpers: ISIMIP-steps.  An operator that can raise yields a  *)
(* record with the exception in its field raised.                          *)
(***************************************************************************)
\* _step3_remove_trend(x, years) with year labels given
_step3_remove_trend(s, x, years) ==
    LET annual_means == get_yearly_mean(x, years)
        n == Len(annual_means)
        remove == linregress_significant(annual_means)
                    /\ s.trend_removal_with_significance_test
        annual_trend == [ k \in 1..n |->
                            IF remove THEN linregress_trend(annual_means, k - 1) ELSE 0 ]
        length == s.running_window_length.v
        \* np.repeat(annual_trend, length)[0 : x.size]
        trend == [ i \in 1..Min2(n * length, Len(x)) |->
                        annual_trend[((i - 1) \div length) + 1] ]
    IN  IF n = 0
        THEN \* linregress: inputs must not be empty
             [x |-> x, trend |-> <<>>, raised |-> "ValueError"]
        ELSE IF Len(trend) = Len(x)
        THEN [x |-> [ i \in Idx(x) |-> x[i] - trend[i] ], trend |-> trend, raised |-> ""]
        ELSE IF Len(trend) = 1
        THEN \* a trend of one entry is broadcast
             [x |-> [ i \in Idx(x) |-> x[i] - trend[1] ], trend |-> trend, raised |-> ""]
        ELSE \* operands could not be broadcast together
             [x |-> x, trend |-> trend, raised |-> "ValueError"]

\* n / d of two finite floats, rounded down to the unit; a division by zero
\* yields nan or an infinity
Quot(n, d) ==
    IF d = 0 THEN (IF n = 0 THEN NaN ELSE IF n > 0 THEN Inf ELSE NegInf)
    ELSE IF d < 0 THEN (0 - n) \div (0 - d)
    ELSE n \div d

\* delta_mult without the clamp of lines 220 and 233
delta_mult_unclamped(q_cm_hist, q_cm_future) ==
    IF q_cm_hist = 0 THEN [num |-> 1, den |-> 1]
    ELSE IF q_cm_hist < 0 THEN [num |-> 0 - q_cm_future, den |-> 0 - q_cm_hist]
    ELSE [num |-> q_cm_future, den |-> q_cm_hist]

\* delta_mult of one sample, the fraction num / den with den > 0:
\* np.maximum(0.01, np.minimum(100, np.where(q_cm_hist == 0, 1, q_cm_future / q_cm_hist)))
delta_mult(q_cm_hist, q_cm_future) ==
    LET delta_star_mult ==
            IF q_cm_hist = 0 THEN [num |-> 1, den |-> 1]
            ELSE IF q_cm_hist < 0 THEN [num |-> 0 - q_cm_future, den |-> 0 - q_cm_hist]
            ELSE [num |-> q_cm_future, den |-> q_cm_hist]
    IN  IF delta_star_mult.num > 100 * delta_star_mult.den THEN [num |-> 100, den |-> 1]
        ELSE IF 100 * delta_star_mult.num < delta_star_mult.den THEN [num |-> 1, den |-> 100]
        ELSE delta_star_mult

\* gamma of formula 7 in thousandths: 1 under condition1, under condition2
\* 0.5 * (1 + np.cos(q_obs_hist / q_cm_hist - 1) * np.pi / 8) with the
\* cosine read at the integer part of its argument, which lies in 0..7
gamma(q_obs_hist, q_cm_hist) ==
    LET k == (q_obs_hist - q_cm_hist) \div q_cm_hist
        cos == CASE k = 0 -> 1000 [] k = 1 -> 540 [] k = 2 -> 0 - 416 [] k = 3 -> 0 - 990
                 [] k = 4 -> 0 - 654 [] k = 5 -> 284 [] k = 6 -> 960 [] OTHER -> 754
    IN  IF q_cm_hist >= q_obs_hist THEN 1000
        ELSE IF q_cm_hist < q_obs_hist /\ q_obs_hist < 9 * q_cm_hist
        THEN (1000 + (cos * 393) \div 1000) \div 2
        ELSE 0

\* formula 8 for one sample: lines 241-249
bounded_transfer(a, b, obs, q_cm_hist, q_cm_future) ==
    LET up == Quot((b - obs) * (b - q_cm_future), b - q_cm_hist)
        down == Quot((obs - a) * (q_cm_future - a), q_cm_hist - a)
    IN  IF q_cm_hist = q_cm_future THEN obs
        ELSE IF q_cm_hist > q_cm_future
        THEN (IF ~IsFinite(a) \/ down = NaN THEN NaN
              ELSE IF ~IsFinite(down) THEN down ELSE a + down)
        ELSE (IF ~IsFinite(b) \/ up = NaN THEN NaN
              ELSE IF ~IsFinite(up) THEN 0 - up ELSE b - up)

\* _step5_transfer_trend: the quantiles of an empty cm_hist or cm_future
\* are nan, and so is what is computed from them
_step5_transfer_trend(s, obs, cmh, cmf) ==
    LET p == ecdf(obs, obs)
        q_cm_future == iecdf(cmf, p)
        q_cm_hist == iecdf(cmh, p)
        method == s.trend_preservation_method
        delta(i) == delta_mult(q_cm_hist[i], q_cm_future[i])
        times(i) == (obs[i] * delta(i).num) \div delta(i).den
        plus(i) == obs[i] + q_cm_future[i] - q_cm_hist[i]
    IN  [ i \in Idx(obs) |->
            IF q_cm_future[i] = NaN \/ q_cm_hist[i] = NaN THEN NaN
            ELSE CASE method = "additive" -> plus(i)
                   [] method = "multiplicative" -> times(i)
                   [] method = "mixed" ->
                        (gamma(obs[i], q_cm_hist[i]) * times(i)
                            + (1000 - gamma(obs[i], q_cm_hist[i])) * plus(i)) \div 1000
                   [] OTHER ->
                        bounded_transfer(s.lower_bound, s.upper_bound, obs[i],
                                         q_cm_hist[i], q_cm_future[i]) ]

\* a fraction num / den, den > 0
Frac(num, den) == [num |-> num, den |-> den]

\* mask.sum() / mask.size of a mask over an array of n > 0 entries
_step6_calculate_percent_values_beyond_threshold(mask, n) == Frac(Cardinality(mask), n)

\* fractions of the model differ by far more than the tolerance of np.isclose
FracEq(a, b) == a.num * b.den = b.num * a.den

FracLe(a, b) == a.num * b.den <= b.num * a.den

FracLt(a, b) == a.num * b.den < b.num * a.den

\* _step6_get_P_obs_future with the sum of its last branch in every branch
_step6_get_P_obs_future_additive(P_obs_hist, P_cm_hist, P_cm_future) ==
    Frac(P_obs_hist.num * P_cm_future.den * P_cm_hist.den
            + P_cm_future.num * P_obs_hist.den * P_cm_hist.den
            - P_cm_hist.num * P_obs_hist.den * P_cm_future.den,
         P_obs_hist.den * P_cm_future.den * P_cm_hist.den)

_step6_get_P_obs_future(P_obs_hist, P_cm_hist, P_cm_future) ==
    IF FracEq(P_cm_hist, P_obs_hist) THEN P_cm_future
    ELSE IF FracLe(P_cm_future, P_cm_hist) /\ FracLt(P_obs_hist, P_cm_hist)
    THEN \* P_obs_hist * P_cm_future / P_cm_hist
         Frac(P_obs_hist.num * P_cm_future.num * P_cm_hist.den,
              P_obs_hist.den * P_cm_future.den * P_cm_hist.num)
    ELSE IF FracLe(P_cm_hist, P_cm_future) /\ FracLt(P_cm_hist, P_obs_hist)
    THEN \* 1 - (1 - P_obs_hist) * (1 - P_cm_future) / (1 - P_cm_hist)
         LET num == (P_obs_hist.den - P_obs_hist.num)
                        * (P_cm_future.den - P_cm_future.num) * P_cm_hist.den
             den == P_obs_hist.den * P_cm_future.den * (P_cm_hist.den - P_cm_hist.num)
         IN Frac(den - num, den)
    ELSE \* P_obs_hist + P_cm_future - P_cm_hist
         Frac(P_obs_hist.num * P_cm_future.den * P_cm_hist.den
                + P_cm_future.num * P_obs_hist.den * P_cm_hist.den
                - P_cm_hist.num * P_obs_hist.den * P_cm_future.den,
              P_obs_hist.den * P_cm_future.den * P_cm_hist.den)

\* round rounding every fraction up
RoundUp(num, den) == (num \div den) + 1

\* round(n * P): Python rounds a tie to the even neighbour
RoundHalfEven(num, den) ==
    LET q == num \div den
        r == num % den
    IN  IF 2 * r < den THEN q
        ELSE IF 2 * r > den THEN q + 1
        ELSE IF q % 2 = 0 THEN q ELSE q + 1

\* the three masks are over the sorted series of n_obs_hist, n_cm_hist and
\* n_cm_future > 0 entries
_step6_get_nr_of_entries_to_set_to_bound(mask_obs_hist, n_obs_hist, mask_cm_hist, n_cm_hist, mask_cm_future, n_cm_future) ==
    LET P_obs_future == _step6_get_P_obs_future(
            _step6_calculate_percent_values_beyond_threshold(mask_obs_hist, n_obs_hist),
            _step6_calculate_percent_values_beyond_threshold(mask_cm_hist, n_cm_hist),
            _step6_calculate_percent_values_beyond_threshold(mask_cm_future, n_cm_future))
    IN RoundHalfEven(n_cm_future * P_obs_future.num, P_obs_future.den)

\* mask[0:nr] = True
_step6_transform_nr_of_entries_to_set_to_lower_bound_to_mask_for_cm_future(nr, n) ==
    Slice(n, 0, nr)

\* mask[(cm_future_sorted.size - nr):] = True
_step6_transform_nr_of_entries_to_set_to_upper_bound_to_mask_for_cm_future(nr, n) ==
    Slice(n, n - nr, n)

_step6_get_mask_for_entries_to_set_to_lower_bound(s, obs_hist_sorted, cm_hist_sorted, cm_future_sorted) ==
    _step6_transform_nr_of_entries_to_set_to_lower_bound_to_mask_for_cm_future(
        _step6_get_nr_of_entries_to_set_to_bound(
            _get_mask_for_values_beyond_lower_threshold(s, obs_hist_sorted),
            Len(obs_hist_sorted),
            _get_mask_for_values_beyond_lower_threshold(s, cm_hist_sorted),
            Len(cm_hist_sorted),
            _get_mask_for_values_beyond_lower_threshold(s, cm_future_sorted),
            Len(cm_future_sorted)),
        Len(cm_future_sorted))

_step6_get_mask_for_entries_to_set_to_upper_bound(s, obs_hist_sorted, cm_hist_sorted, cm_future_sorted) ==
    _step6_transform_nr_of_entries_to_set_to_upper_bound_to_mask_for_cm_future(
        _step6_get_nr_of_entries_to_set_to_bound(
            _get_mask_for_values_beyond_upper_threshold(s, obs_hist_sorted),
            Len(obs_hist_sorted),
            _get_mask_for_values_beyond_upper_threshold(s, cm_hist_sorted),
            Len(cm_hist_sorted),
            _get_mask_for_values_beyond_upper_threshold(s, cm_future_sorted),
            Len(cm_future_sorted)),
        Len(cm_future_sorted))

\* _step6_adjust_values_between_thresholds mapping onto the fit of obs_hist
_step6_adjust_values_between_thresholds_onto_obs_hist(s, obs_hist_sorted, obs_future_sorted, cm_hist_sorted, cm_future_sorted) ==
    distribution_ppf(distribution_cdf(cm_future_sorted, distribution_fit(cm_future_sorted)),
                     distribution_fit(obs_hist_sorted))

\* _step6_adjust_values_between_thresholds without event likelihood
\* adjustment (line 360)
_step6_adjust_values_between_thresholds(s, obs_hist_sorted, obs_future_sorted, cm_hist_sorted, cm_future_sorted) ==
    LET fit_cm_future == distribution_fit(cm_future_sorted)
        fit_obs_future == distribution_fit(obs_future_sorted)
        cdf_vals_cm_future == distribution_cdf(cm_future_sorted, fit_cm_future)
    IN distribution_ppf(cdf_vals_cm_future, fit_obs_future)

(***************************************************************************)
(* ISIMIP calculation steps.  lib stands for what the source does not fix: *)
(* lib.lower and lib.upper are the sorted draws of np.random.uniform in    *)
(* step 4, lib.empty_raises says whether utils and the statistical method  *)
(* raise on an empty sample or yield nan.                                  *)
(***************************************************************************)
step1(s, obs, cmh, cmf) ==
    [obs_hist |-> obs, cm_hist |-> cmh, cm_future |-> cmf, scale |-> "None"]

\* the series of the model hold no nan, so that step 2 imputes nothing
step2(s, obs, cmh, cmf) ==
    [obs_hist |-> obs, cm_hist |-> cmh, cm_future |-> cmf]

step3(s, obs, cmh, cmf, years_obs_hist, years_cm_hist, years_cm_future) ==
    LET r_obs == _step3_remove_trend(s, obs, years_obs_hist)
        r_cmh == _step3_remove_trend(s, cmh, years_cm_hist)
        r_cmf == _step3_remove_trend(s, cmf, years_cm_future)
        same == [obs_hist |-> obs, cm_hist |-> cmh, cm_future |-> cmf,
                 trend_cm_future |-> [ i \in Idx(cmf) |-> 0 ], raised |-> ""]
    IN  IF s.detrending.v # 1 THEN same
        ELSE IF r_obs.raised # "" THEN [same EXCEPT !.raised = r_obs.raised]
        ELSE IF r_cmh.raised # "" THEN [same EXCEPT !.raised = r_cmh.raised]
        ELSE IF r_cmf.raised # "" THEN [same EXCEPT !.raised = r_cmf.raised]
        ELSE [obs_hist |-> r_obs.x, cm_hist |-> r_cmh.x, cm_future |-> r_cmf.x,
              trend_cm_future |-> r_cmf.trend, raised |-> ""]

\* np.random.uniform(low, high) raises unless high - low is finite
UniformRaises(low, high) == ~(IsFinite(low) /\ IsFinite(high))

\* the values a draw of np.random.uniform(low, high) can have
UniformValues(low, high) ==
    IF UniformRaises(low, high) THEN {0} ELSE Min2(low, high)..Max2(low, high)

step4(s, cmf, lib) ==
    LET lower == has_lower_bound(s) /\ has_lower_threshold(s)
        upper == has_upper_bound(s) /\ has_upper_threshold(s)
        mask_cm_future_values_beyond_lower_threshold ==
            _get_mask_for_values_beyond_lower_threshold(s, cmf)
        lower_raises == lower /\ UniformRaises(s.lower_bound, s.lower_threshold)
        randomised_lower ==
            SubSeq(lib.lower, 1, Cardinality(mask_cm_future_values_beyond_lower_threshold))
        cmf1 == IF lower /\ ~lower_raises
                THEN Put(cmf, mask_cm_future_values_beyond_lower_threshold,
                         sort_array_like_another_one(randomised_lower,
                            Take(cmf, mask_cm_future_values_beyond_lower_threshold)))
                ELSE cmf
        mask_cm_future_values_beyond_upper_threshold ==
            _get_mask_for_values_beyond_upper_threshold(s, cmf1)
        randomised_upper ==
            SubSeq(lib.upper, 1, Cardinality(mask_cm_future_values_beyond_upper_threshold))
        resorted == sort_array_like_another_one(randomised_upper,
                        Take(cmf1, mask_cm_future_values_beyond_upper_threshold))
    IN  IF lower_raises THEN [cm_future |-> cmf, raised |-> "OverflowError"]
        ELSE IF ~upper THEN [cm_future |-> cmf1, raised |-> ""]
        ELSE IF UniformRaises(s.upper_threshold, s.upper_bound)
        THEN [cm_future |-> cmf1, raised |-> "OverflowError"]
        ELSE IF ~lower
        THEN \* line 449 reads the mask that only line 428 assigns
             [cm_future |-> cmf1, raised |-> "UnboundLocalError"]
        ELSE IF Len(resorted) = Cardinality(mask_cm_future_values_beyond_lower_threshold)
        THEN [cm_future |-> Put(cmf1, mask_cm_future_values_beyond_lower_threshold, resorted),
              raised |-> ""]
        ELSE IF Len(resorted) = 1
        THEN [cm_future |-> Fill(cmf1, mask_cm_future_values_beyond_lower_threshold,
                                 resorted[1]),
              raised |-> ""]
        ELSE \* cannot assign k input values to the n output values
             [cm_future |-> cmf1, raised |-> "ValueError"]

\* step5 yields what it returns (ret, with isNone for None) and obs_hist,
\* the array of the caller, which the else branch assigns to
step5(s, obs, cmh, cmf, lib) ==
    LET mask_for_values_between_thresholds_obs_hist ==
            _get_mask_for_values_between_thresholds(s, obs)
        obs_in == Take(obs, mask_for_values_between_thresholds_obs_hist)
        cmh_in == _get_values_between_thresholds(s, cmh)
        cmf_in == _get_values_between_thresholds(s, cmf)
        empty(a, b, c) == Len(a) = 0 \/ Len(b) = 0 \/ Len(c) = 0
    IN  IF s.trend_transfer_only_for_values_within_threshold
        THEN IF lib.empty_raises /\ empty(obs, cmh, cmf)
             THEN [ret |-> <<>>, isNone |-> FALSE, obs_hist |-> obs, raised |-> "ValueError"]
             ELSE [ret |-> _step5_transfer_trend(s, obs, cmh, cmf), isNone |-> FALSE,
                   obs_hist |-> obs, raised |-> ""]
        ELSE IF lib.empty_raises /\ empty(obs_in, cmh_in, cmf_in)
             THEN [ret |-> <<>>, isNone |-> FALSE, obs_hist |-> obs, raised |-> "ValueError"]
             ELSE \* the branch ends without a return statement
                  [ret |-> <<>>, isNone |-> TRUE,
                   obs_hist |-> Put(obs, mask_for_values_between_thresholds_obs_hist,
                                    _step5_transfer_trend(s, obs_in, cmh_in, cmf_in)),
                   raised |-> ""]

step6(s, obs, obs_future, obs_future_isNone, cmh, cmf, lib) ==
    LET cm_future_sorted == Sort(cmf)
        obs_hist_sorted == Sort(obs)
        obs_future_sorted == Sort(obs_future)
        cm_hist_sorted == Sort(cmh)
        \* mask.sum() / mask.size of an empty series is nan, and round(nan) raises
        nan_count == Len(obs) = 0 \/ Len(cmh) = 0 \/ Len(cmf) = 0
        mask_for_entries_to_set_to_lower_bound ==
            IF has_lower_threshold(s)
            THEN _step6_get_mask_for_entries_to_set_to_lower_bound(
                    s, obs_hist_sorted, cm_hist_sorted, cm_future_sorted)
            ELSE {}
        mask_for_entries_to_set_to_upper_bound ==
            IF has_upper_threshold(s)
            THEN _step6_get_mask_for_entries_to_set_to_upper_bound(
                    s, obs_hist_sorted, cm_hist_sorted, cm_future_sorted)
            ELSE {}
        set_to_bounds ==
            Fill(Fill(cm_future_sorted, mask_for_entries_to_set_to_lower_bound, s.lower_bound),
                 mask_for_entries_to_set_to_upper_bound, s.upper_bound)
        mask_for_entries_not_set_to_either_bound ==
            Idx(cmf) \ (mask_for_entries_to_set_to_lower_bound
                            \cup mask_for_entries_to_set_to_upper_bound)
        obs_hist_in == _get_values_between_thresholds(s, obs_hist_sorted)
        obs_future_in == _get_values_between_thresholds(s, obs_future_sorted)
        cm_hist_in == _get_values_between_thresholds(s, cm_hist_sorted)
        cm_future_in == Take(set_to_bounds, mask_for_entries_not_set_to_either_bound)
        adjusted == Put(set_to_bounds, mask_for_entries_not_set_to_either_bound,
                        _step6_adjust_values_between_thresholds(
                            s, obs_hist_in, obs_future_in, cm_hist_in, cm_future_in))
    IN  IF obs_future_isNone
        THEN \* np.sort(None)
             [ret |-> <<>>, raised |-> "AxisError"]
        ELSE IF (has_lower_threshold(s) \/ has_upper_threshold(s)) /\ nan_count
        THEN [ret |-> <<>>, raised |-> "ValueError"]
        ELSE IF lib.empty_raises
                /\ (Len(obs_hist_in) = 0 \/ Len(obs_future_in) = 0
                        \/ Len(cm_hist_in) = 0 \/ Len(cm_future_in) = 0)
        THEN [ret |-> <<>>, raised |-> "ValueError"]
        ELSE \* cm_future_sorted[reverse_sorting_idx]
             [ret |-> [ i \in Idx(cmf) |-> adjusted[Rank(cmf, i)] ], raised |-> ""]

\* cm_future + trend_cm_future; a trend of one entry is broadcast
step7(s, cmf, trend_cm_future) ==
    IF s.detrending.v = 1
    THEN [ i \in Idx(cmf) |->
            Add(cmf[i], IF Len(trend_cm_future) = 1 THEN trend_cm_future[1]
                        ELSE trend_cm_future[i]) ]
    ELSE cmf

step8(s, cmf, scale) == cmf

(***************************************************************************)
(* _apply_on_window.  A window is the record of the local variables of one *)
(* call; log is the history of the steps it has called, each with the      *)
(* arrays it was given and the arrays it returned.                         *)
(***************************************************************************)
Window(obs, cmh, cmf, years_obs_hist, years_cm_hist, years_cm_future) ==
    [ obs_hist |-> obs, cm_hist |-> cmh, cm_future |-> cmf,
      years_obs_hist |-> years_obs_hist, years_cm_hist |-> years_cm_hist,
      years_cm_future |-> years_cm_future,
      scale |-> "None", trend_cm_future |-> <<>>,
      obs_future |-> <<>>, obs_future_isNone |-> FALSE,
      raised |-> "", log |-> <<>> ]

Logged(w, step, given, returned) ==
    Append(w.log, [step |-> step, args |-> given, ret |-> returned])

\* line 547
call_step1(w) ==
    LET r == step1(self, w.obs_hist, w.cm_hist, w.cm_future)
    IN [w EXCEPT !.obs_hist = r.obs_hist, !.cm_hist = r.cm_hist,
                 !.cm_future = r.cm_future, !.scale = r.scale,
                 !.log = Logged(w, "step1", <<w.obs_hist, w.cm_hist, w.cm_future>>,
                                <<r.obs_hist, r.cm_hist, r.cm_future>>)]

\* line 548
call_step2(w) ==
    LET r == step2(self, w.obs_hist, w.cm_hist, w.cm_future)
    IN [w EXCEPT !.obs_hist = r.obs_hist, !.cm_hist = r.cm_hist,
                 !.cm_future = r.cm_future,
                 !.log = Logged(w, "step2", <<w.obs_hist, w.cm_hist, w.cm_future>>,
                                <<r.obs_hist, r.cm_hist, r.cm_future>>)]

\* lines 549-551
call_step3(w) ==
    LET r == step3(self, w.obs_hist, w.cm_hist, w.cm_future,
                   w.years_obs_hist, w.years_cm_hist, w.years_cm_future)
        given == <<w.obs_hist, w.cm_hist, w.cm_future>>
    IN  IF r.raised # ""
        THEN [w EXCEPT !.raised = r.raised, !.log = Logged(w, "step3", given, <<>>)]
        ELSE [w EXCEPT !.obs_hist = r.obs_hist, !.cm_hist = r.cm_hist,
                       !.cm_future = r.cm_future,
                       !.trend_cm_future = r.trend_cm_future,
                       !.log = Logged(w, "step3", given,
                                      <<r.obs_hist, r.cm_hist, r.cm_future,
                                        r.trend_cm_future>>)]

\* line 552
call_step4(w, lib) ==
    LET r == step4(self, w.cm_future, lib)
    IN  IF r.raised # ""
        THEN [w EXCEPT !.raised = r.raised,
                       !.log = Logged(w, "step4", <<w.cm_future>>, <<>>)]
        ELSE [w EXCEPT !.cm_future = r.cm_future,
                       !.log = Logged(w, "step4", <<w.cm_future>>, <<r.cm_future>>)]

\* line 553
call_step5(w, lib) ==
    LET r == step5(self, w.obs_hist, w.cm_hist, w.cm_future, lib)
        given == <<w.obs_hist, w.cm_hist, w.cm_future>>
    IN  IF r.raised # ""
        THEN [w EXCEPT !.raised = r.raised, !.log = Logged(w, "step5", given, <<>>)]
        ELSE [w EXCEPT !.obs_future = r.ret, !.obs_future_isNone = r.isNone,
                       !.obs_hist = r.obs_hist,
                       !.log = Logged(w, "step5", given, <<r.ret>>)]

\* line 554
call_step6(w, lib) ==
    LET r == step6(self, w.obs_hist, w.obs_future, w.obs_future_isNone,
                   w.cm_hist, w.cm_future, lib)
        given == <<w.obs_hist, w.obs_future, w.cm_hist, w.cm_future>>
    IN  IF r.raised # ""
        THEN [w EXCEPT !.raised = r.raised, !.log = Logged(w, "step6", given, <<>>)]
        ELSE [w EXCEPT !.cm_future = r.ret,
                       !.log = Logged(w, "step6", given, <<r.ret>>)]

\* call_step7 given a trend of zeros
call_step7_zero_trend(w) ==
    LET zeros == [ i \in Idx(w.trend_cm_future) |-> 0 ]
        r == step7(self, w.cm_future, zeros)
    IN [w EXCEPT !.cm_future = r,
                 !.log = Logged(w, "step7", <<w.cm_future, zeros>>, <<r>>)]

\* line 555
call_step7(w) ==
    LET r == step7(self, w.cm_future, w.trend_cm_future)
    IN [w EXCEPT !.cm_future = r,
                 !.log = Logged(w, "step7", <<w.cm_future, w.trend_cm_future>>, <<r>>)]

\* line 556
call_step8(w) ==
    LET r == step8(self, w.cm_future, w.scale)
    IN [w EXCEPT !.cm_future = r,
                 !.log = Logged(w, "step8", <<w.cm_future>>, <<r>>)]

\* the statements of _apply_on_window, in the order of lines 547-556
ApplyOnWindowSteps ==
    <<"step1", "step2", "step3", "step4", "step5", "step6", "step7", "step8">>

Call(step, w, lib) ==
    CASE step = "step1" -> call_step1(w)
      [] step = "step2" -> call_step2(w)
      [] step = "step3" -> call_step3(w)
      [] step = "step4" -> call_step4(w, lib)
      [] step = "step5" -> call_step5(w, lib)
      [] step = "step6" -> call_step6(w, lib)
      [] step = "step7" -> call_step7(w)
      [] step = "step8" -> call_step8(w)

\* the window after the statements from the k-th on; an exception ends the call
RECURSIVE RunFrom(_, _, _)
RunFrom(k, w, lib) ==
    IF k > Len(ApplyOnWindowSteps) \/ w.raised # "" THEN w
    ELSE RunFrom(k + 1, Call(ApplyOnWindowSteps[k], w, lib), lib)

\* _apply_on_window(...): the window at its return statement or at the
\* exception that ended it
_apply_on_window(obs, cmh, cmf, years_obs_hist, years_cm_hist, years_cm_future, lib) ==
    RunFrom(1, Window(obs, cmh, cmf, years_obs_hist, years_cm_hist, years_cm_future), lib)

\* what lib can be in a call on a cm_future of n samples
Libs(n) ==
    [ lower : SortedSeqs(n, UniformValues(self.lower_bound, self.lower_threshold)),
      upper : SortedSeqs(n, UniformValues(self.upper_threshold, self.upper_bound)),
      empty_raises : BOOLEAN ]

(***************************************************************************)
(* Construction.  The keyword arguments of a call: every subset of the     *)
(* optional keywords the model varies, each with a value of its set.       *)
(***************************************************************************)
Choices(f, values) == { Given(x) : x \in values } \cup { NotGiven(f) }

BoundArgs == 0..MaxBound

\* the calls of the model
Calls ==
    [ distribution : { Given(x) : x \in {"rv_continuous", "ndarray"} },
      trend_preservation_method :
          { Given(x) : x \in {"additive", "bounded", "linear"} },
      detrending : { Given(x) : x \in {Py("bool", 1), Py("bool", 0), Py("str", 1)} },
      reasonable_physical_range :
          Choices("reasonable_physical_range",
                  { Range(<<0, 2>>, TRUE), Range(<<1, 1>>, TRUE), Range(<<2, 0>>, TRUE),
                    Range(<<0>>, TRUE), Range(<<0, 2>>, FALSE) }),
      variable : { NotGiven("variable") },
      lower_bound : Choices("lower_bound", BoundArgs),
      lower_threshold : Choices("lower_threshold", BoundArgs),
      upper_bound : Choices("upper_bound", BoundArgs),
      upper_threshold : Choices("upper_threshold", BoundArgs),
      trend_removal_with_significance_test :
          { NotGiven("trend_removal_with_significance_test") },
      trend_transfer_only_for_values_within_threshold :
          { NotGiven("trend_transfer_only_for_values_within_threshold") },
      event_likelihood_adjustment : { NotGiven("event_likelihood_adjustment") },
      ecdf_method : Choices("ecdf_method", {"step_function"}),
      iecdf_method : Choices("iecdf_method", {"inverted_cdf"}),
      running_window_mode : { NotGiven("running_window_mode") },
      running_window_length :
          Choices("running_window_length",
                  {Py("int", 0), Py("int", 0 - 1), Py("float", 1)}),
      running_window_step_length :
          Choices("running_window_step_length", {Py("int", 0)}) ]

\* the variables of apply_location before any call of it
NoTime == [isNone |-> TRUE, t |-> <<>>]

\* calculate_marginal_bias not called
NoMarginal == [cm_data_key |-> 0, marginal_bias_dfs |-> <<>>, warned |-> <<>>, plot_data |-> <<>>]

NotCalled ==
    /\ obs_hist = <<>> /\ cm_hist = <<>> /\ cm_future = <<>>
    /\ time_obs_hist = NoTime /\ time_cm_hist = NoTime /\ time_cm_future = NoTime
    /\ i_month = 0
    /\ debiased_cm_future = <<>>
    /\ result = [returned |-> FALSE, value |-> <<>>]
    /\ runs = <<>>
    /\ writes = <<>>

NoWindow == Window(<<>>, <<>>, <<>>, <<>>, <<>>, <<>>)

NoLib == [lower |-> <<>>, upper |-> <<>>, empty_raises |-> FALSE]

InitConfig ==
    /\ args \in Calls
    /\ self = Attributes(args)
    /\ pc = "new"
    /\ raised = ""
    /\ NotCalled /\ marginal = NoMarginal
    /\ win = NoWindow
    /\ library = NoLib

\* ISIMIP(**args): the generated __init__ sets the attributes and runs the
\* validators; the instance exists only if none raises
ISIMIP_init ==
    /\ pc = "new"
    /\ self' = Attributes(args)
    /\ raised' = Validate(Attributes(args))
    /\ pc' = IF Validate(Attributes(args)) = "" THEN "constructed" ELSE "failed"
    /\ UNCHANGED args
    /\ UNCHANGED avars
    /\ UNCHANGED wvars
    /\ UNCHANGED marginal

NextConfig == ISIMIP_init

SpecConfig == InitConfig /\ [][NextConfig]_vars

(***************************************************************************)
(* apply_location.  month and year of utils read the calendar month and    *)
(* the year of a time label.                                               *)
(***************************************************************************)
Time(y, m) == [year |-> y, month |-> m]

month(time) == [ i \in Idx(time) |-> time[i].month ]

year(time) == [ i \in Idx(time) |-> time[i].year ]

\* range(1, 13)
FirstMonth == 1

LastMonth == 12

\* MonthMask selecting the months up to m
MonthMask_up_to(time, m) == { i \in Idx(time) : month(time)[i] <= m }

\* month(time) == i_month
MonthMask(time, m) == { i \in Idx(time) : month(time)[i] = m }

\* the calls of the constructor whose instances the model applies: monthly
\* or running window mode, with and without a physical range, without
\* bounds (-inf below, inf above), with the default bounds, with a lower
\* bound 0 and threshold 1, with the restricted trend transfer, detrending
ApplyBase ==
    [ distribution |-> Given("StatisticalModel"),
      trend_preservation_method |-> Given("additive"),
      detrending |-> Given(Py("bool", 0)),
      reasonable_physical_range |-> NotGiven("reasonable_physical_range"),
      variable |-> NotGiven("variable"),
      lower_bound |-> Given(NegInf),
      lower_threshold |-> Given(NegInf),
      upper_bound |-> Given(Inf),
      upper_threshold |-> Given(Inf),
      trend_removal_with_significance_test |->
          NotGiven("trend_removal_with_significance_test"),
      trend_transfer_only_for_values_within_threshold |->
          NotGiven("trend_transfer_only_for_values_within_threshold"),
      event_likelihood_adjustment |-> NotGiven("event_likelihood_adjustment"),
      ecdf_method |-> Given("step_function"),
      iecdf_method |-> Given("inverted_cdf"),
      running_window_mode |-> Given(FALSE),
      running_window_length |-> NotGiven("running_window_length"),
      running_window_step_length |-> NotGiven("running_window_step_length") ]

ApplyCalls ==
    { ApplyBase,
      [ApplyBase EXCEPT !.reasonable_physical_range = Given(Range(<<1, 2>>, TRUE))],
      [ApplyBase EXCEPT !.running_window_mode = NotGiven("running_window_mode")],
      [ApplyBase EXCEPT !.running_window_mode = NotGiven("running_window_mode"),
                        !.reasonable_physical_range = Given(Range(<<1, 2>>, TRUE))],
      [ApplyBase EXCEPT !.lower_bound = NotGiven("lower_bound"),
                        !.lower_threshold = NotGiven("lower_threshold"),
                        !.upper_bound = NotGiven("upper_bound"),
                        !.upper_threshold = NotGiven("upper_threshold")],
      [ApplyBase EXCEPT !.lower_bound = Given(0), !.lower_threshold = Given(1)],
      [ApplyBase EXCEPT !.trend_transfer_only_for_values_within_threshold = Given(FALSE)],
      [ApplyBase EXCEPT !.detrending = Given(Py("bool", 1))] }

\* the values of the samples of cm_future: 1 is the lower end of the physical
\* range [1, 2] of the calls, 3 lies above it
Values == {1, 3}

\* the calendar months of the time labels
Months == {FirstMonth, LastMonth}

\* a series of n samples as the pair of its values and its time labels, one
\* sample a year
Labelled(vals, months) ==
    [v |-> vals, t |-> [ i \in Idx(months) |-> Time(i - 1, months[i]) ]]

\* a series with a sample in every calendar month, the values alternating
\* between the ends of the physical range
FullYear ==
    Labelled([ i \in FirstMonth..LastMonth |-> 1 + (i % 2) ],
             [ i \in FirstMonth..LastMonth |-> i ])

\* the same with a second sample in the first month, a year later
FullYearAndAMonth ==
    Labelled(Append(FullYear.v, 1), Append([ i \in FirstMonth..LastMonth |-> i ], FirstMonth))

FutureSeries ==
    UNION { { Labelled(vals, months) : vals \in [1..n -> Values], months \in [1..n -> Months] }
            : n \in 0..MaxLen }
        \cup { FullYear, FullYearAndAMonth }

\* obs_hist and cm_hist of the calls: empty, inside the physical range
\* [1, 2] with its two ends, with 0 below it and with 3 above it
HistSeries ==
    LET empty == Labelled(<<>>, <<>>)
        two == Labelled(<<1, 2>>, <<FirstMonth, LastMonth>>)
        three == Labelled(<<2, 1, 1>>, <<FirstMonth, FirstMonth, LastMonth>>)
        below == Labelled(<<0, 1>>, <<LastMonth, LastMonth>>)
        above == Labelled(<<3>>, <<FirstMonth>>)
    IN { <<empty, empty>>, <<two, three>>, <<three, two>>, <<two, two>>,
         <<below, two>>, <<two, above>>, <<below, above>>,
         <<FullYear, FullYearAndAMonth>> }

\* which of time_obs_hist, time_cm_hist, time_cm_future a call leaves None
TimeArguments ==
    { <<FALSE, FALSE, FALSE>>, <<TRUE, FALSE, FALSE>>, <<FALSE, TRUE, FALSE>>,
      <<FALSE, FALSE, TRUE>>, <<TRUE, TRUE, TRUE>> }

TimeArg(none, series) == IF none THEN NoTime ELSE [isNone |-> FALSE, t |-> series.t]

\* a constructed instance and one call apply_location(obs_hist, cm_hist,
\* cm_future, time_obs_hist, time_cm_hist, time_cm_future) on it
Init ==
    /\ args \in { c \in ApplyCalls : Validate(Attributes(c)) = "" }
    /\ self = Attributes(args)
    /\ pc = "apply_location"
    /\ raised = ""
    /\ \E hist \in HistSeries, f \in FutureSeries, none \in TimeArguments :
        /\ obs_hist = hist[1].v /\ cm_hist = hist[2].v /\ cm_future = f.v
        /\ time_obs_hist = TimeArg(none[1], hist[1])
        /\ time_cm_hist = TimeArg(none[2], hist[2])
        /\ time_cm_future = TimeArg(none[3], f)
    /\ i_month = 0
    /\ debiased_cm_future = <<>>
    /\ result = [returned |-> FALSE, value |-> <<>>]
    /\ runs = <<>>
    /\ writes = <<>>
    /\ win = NoWindow
    /\ library = NoLib
    /\ marginal = NoMarginal

\* HasTimeInformation testing time_obs_hist only
HasTimeInformation_obs_hist_only == ~time_obs_hist.isNone

\* line 575
HasTimeInformation ==
    ~time_obs_hist.isNone /\ ~time_cm_hist.isNone /\ ~time_cm_future.isNone

\* line 569, the check raising
RangeCheckRaises ==
    /\ pc = "apply_location"
    /\ _check_reasonable_physical_range(self, obs_hist, cm_hist, cm_future) # ""
    /\ raised' = "ValueError: "
                    \o _check_reasonable_physical_range(self, obs_hist, cm_hist, cm_future)
    /\ pc' = "raised"
    /\ UNCHANGED <<args, self, wvars>>
    /\ UNCHANGED avars
    /\ UNCHANGED marginal

\* line 569, the check passing
RangeCheckPasses ==
    /\ pc = "apply_location"
    /\ _check_reasonable_physical_range(self, obs_hist, cm_hist, cm_future) = ""
    /\ pc' = "mode"
    /\ UNCHANGED <<args, self, raised, wvars>>
    /\ UNCHANGED avars
    /\ UNCHANGED marginal

\* ReturnCmFuture returning a new array of zeros
ReturnCmFuture_zeros ==
    /\ pc = "mode"
    /\ self.running_window_mode
    /\ result' = [returned |-> TRUE, value |-> [ i \in Idx(cm_future) |-> 0 ]]
    /\ pc' = "returned"
    /\ UNCHANGED <<args, self, raised, wvars, obs_hist, cm_hist, cm_future, time_obs_hist,
                   time_cm_hist, time_cm_future, i_month, debiased_cm_future, runs, writes>>
    /\ UNCHANGED marginal

\* lines 572-573
ReturnCmFuture ==
    /\ pc = "mode"
    /\ self.running_window_mode
    /\ result' = [returned |-> TRUE, value |-> cm_future]
    /\ pc' = "returned"
    /\ UNCHANGED <<args, self, raised, wvars, obs_hist, cm_hist, cm_future, time_obs_hist,
                   time_cm_hist, time_cm_future, i_month, debiased_cm_future, runs, writes>>
    /\ UNCHANGED marginal

\* lines 575-578
EnterMonthLoop ==
    /\ pc = "mode"
    /\ ~self.running_window_mode
    /\ HasTimeInformation
    /\ debiased_cm_future' = [ i \in Idx(cm_future) |-> 0 ]
    /\ writes' = [ i \in Idx(cm_future) |-> <<>> ]
    /\ i_month' = FirstMonth
    /\ pc' = "loop"
    /\ UNCHANGED <<args, self, raised, wvars, obs_hist, cm_hist, cm_future, time_obs_hist,
                   time_cm_hist, time_cm_future, result, runs>>
    /\ UNCHANGED marginal

\* lines 592-596
RaiseNoTime ==
    /\ pc = "mode"
    /\ ~self.running_window_mode
    /\ ~HasTimeInformation
    /\ raised' = "ValueError: requires time information"
    /\ pc' = "raised"
    /\ UNCHANGED <<args, self, wvars>>
    /\ UNCHANGED avars
    /\ UNCHANGED marginal

\* lines 579-590: one pass of the loop body
MonthPass ==
    /\ pc = "loop"
    /\ i_month <= LastMonth
    /\ \E mask_i_month_in_obs_hist \in {MonthMask(time_obs_hist.t, i_month)},
          mask_i_month_in_cm_hist \in {MonthMask(time_cm_hist.t, i_month)},
          mask_i_month_in_cm_future \in {MonthMask(time_cm_future.t, i_month)} :
       \E obs \in {Take(obs_hist, mask_i_month_in_obs_hist)},
          cmh \in {Take(cm_hist, mask_i_month_in_cm_hist)},
          cmf \in {Take(cm_future, mask_i_month_in_cm_future)},
          years_obs_hist \in {year(Take(time_obs_hist.t, mask_i_month_in_obs_hist))},
          years_cm_hist \in {year(Take(time_cm_hist.t, mask_i_month_in_cm_hist))},
          years_cm_future \in {year(Take(time_cm_future.t, mask_i_month_in_cm_future))},
          lib \in Libs(Cardinality(mask_i_month_in_cm_future)) :
       \E w \in {_apply_on_window(obs, cmh, cmf, years_obs_hist, years_cm_hist,
                                  years_cm_future, lib)} :
          /\ runs' = Append(runs, [i_month |-> i_month, obs_hist |-> obs, cm_hist |-> cmh,
                                   cm_future |-> cmf, raised |-> w.raised,
                                   ret |-> w.cm_future])
          /\ IF w.raised # ""
             THEN /\ raised' = w.raised
                  /\ pc' = "raised"
                  /\ UNCHANGED <<debiased_cm_future, writes, i_month>>
             ELSE /\ debiased_cm_future' =
                        Put(debiased_cm_future, mask_i_month_in_cm_future, w.cm_future)
                  /\ writes' = [ i \in Idx(writes) |->
                                    IF i \in mask_i_month_in_cm_future
                                    THEN Append(writes[i], i_month) ELSE writes[i] ]
                  /\ i_month' = i_month + 1
                  /\ UNCHANGED <<raised, pc>>
    /\ UNCHANGED <<args, self, wvars, obs_hist, cm_hist, cm_future, time_obs_hist,
                   time_cm_hist, time_cm_future, result>>
    /\ UNCHANGED marginal

\* line 591
ReturnDebiased ==
    /\ pc = "loop"
    /\ i_month > LastMonth
    /\ result' = [returned |-> TRUE, value |-> debiased_cm_future]
    /\ pc' = "returned"
    /\ UNCHANGED <<args, self, raised, wvars, obs_hist, cm_hist, cm_future, time_obs_hist,
                   time_cm_hist, time_cm_future, i_month, debiased_cm_future, runs, writes>>
    /\ UNCHANGED marginal

Next ==
    \/ RangeCheckRaises
    \/ RangeCheckPasses
    \/ ReturnCmFuture
    \/ EnterMonthLoop
    \/ RaiseNoTime
    \/ MonthPass
    \/ ReturnDebiased

Spec == Init /\ [][Next]_vars

(***************************************************************************)
(* _apply_on_window, statement by statement: one call on a constructed     *)
(* instance, win holding its local variables.                              *)
(***************************************************************************)
\* the instances of the calls: without bounds, with a lower bound 0 and
\* threshold 1, detrending, both, with the unrestricted trend transfer, and
\* with the default bounds
WindowCalls ==
    { ApplyBase,
      [ApplyBase EXCEPT !.lower_bound = Given(0), !.lower_threshold = Given(1)],
      [ApplyBase EXCEPT !.detrending = Given(Py("bool", 1))],
      [ApplyBase EXCEPT !.detrending = Given(Py("bool", 1)),
                        !.lower_bound = Given(0), !.lower_threshold = Given(1)],
      [ApplyBase EXCEPT !.trend_transfer_only_for_values_within_threshold = Given(FALSE)],
      [ApplyBase EXCEPT !.lower_bound = NotGiven("lower_bound"),
                        !.lower_threshold = NotGiven("lower_threshold"),
                        !.upper_bound = NotGiven("upper_bound"),
                        !.upper_threshold = NotGiven("upper_threshold")] }

\* obs_hist and cm_hist of the calls
WindowHist == { <<>>, <<1, 2>>, <<2, 1, 1>>, <<3, 1>> }

\* cm_future of the calls
WindowFuture == UNION { [1..n -> Values] : n \in 0..MaxLen }

\* one sample a year
Years(x) == [ i \in Idx(x) |-> i - 1 ]

InitWindow ==
    /\ args \in { c \in WindowCalls : Validate(Attributes(c)) = "" }
    /\ self = Attributes(args)
    /\ pc = "_apply_on_window"
    /\ raised = ""
    /\ NotCalled /\ marginal = NoMarginal
    /\ \E obs \in WindowHist, cmh \in WindowHist, cmf \in WindowFuture :
        /\ win = Window(obs, cmh, cmf, Years(obs), Years(cmh), Years(cmf))
        /\ library \in Libs(Len(cmf))

\* the call is at the statement that calls step
At(step) ==
    /\ pc = "_apply_on_window"
    /\ Len(win.log) < Len(ApplyOnWindowSteps)
    /\ ApplyOnWindowSteps[Len(win.log) + 1] = step

\* the assignment of the statement, or the exception of the step
Assign(w) ==
    /\ win' = w
    /\ raised' = w.raised
    /\ pc' = IF w.raised # "" THEN "raised" ELSE pc
    /\ UNCHANGED <<args, self, library>>
    /\ UNCHANGED avars
    /\ UNCHANGED marginal

\* line 547
Statement_step1 == At("step1") /\ \E w \in {call_step1(win)} : Assign(w)

\* line 548
Statement_step2 == At("step2") /\ \E w \in {call_step2(win)} : Assign(w)

\* lines 549-551
Statement_step3 == At("step3") /\ \E w \in {call_step3(win)} : Assign(w)

\* line 552
Statement_step4 == At("step4") /\ \E w \in {call_step4(win, library)} : Assign(w)

\* line 553
Statement_step5 == At("step5") /\ \E w \in {call_step5(win, library)} : Assign(w)

\* line 554
Statement_step6 == At("step6") /\ \E w \in {call_step6(win, library)} : Assign(w)

\* line 555
Statement_step7 == At("step7") /\ \E w \in {call_step7(win)} : Assign(w)

\* line 556
Statement_step8 == At("step8") /\ \E w \in {call_step8(win)} : Assign(w)

\* line 558
ReturnWindow ==
    /\ pc = "_apply_on_window"
    /\ Len(win.log) = Len(ApplyOnWindowSteps)
    /\ result' = [returned |-> TRUE, value |-> win.cm_future]
    /\ pc' = "returned"
    /\ UNCHANGED <<args, self, raised, wvars, obs_hist, cm_hist, cm_future, time_obs_hist,
                   time_cm_hist, time_cm_future, i_month, debiased_cm_future, runs, writes>>
    /\ UNCHANGED marginal

NextWindow ==
    \/ Statement_step1
    \/ Statement_step2
    \/ Statement_step3
    \/ Statement_step4
    \/ Statement_step5
    \/ Statement_step6
    \/ Statement_step7
    \/ Statement_step8
    \/ ReturnWindow

SpecWindow == InitWindow /\ [][NextWindow]_vars

(***************************************************************************)
(* step3 followed by step7 on what step3 returned: the removal of the      *)
(* trend and its re-addition, without the steps between them.              *)
(***************************************************************************)
\* the instances: detrending or not, with and without the significance
\* test, with the default running_window_length and with 1
TrendCalls ==
    { [ApplyBase EXCEPT !.detrending = Given(Py("bool", d)),
                        !.trend_removal_with_significance_test = t,
                        !.running_window_length = l]
        : d \in {0, 1},
          t \in {NotGiven("trend_removal_with_significance_test"), Given(FALSE)},
          l \in {NotGiven("running_window_length"), Given(Py("int", 1))} }

\* the values of the series
TrendValues == {2, 4, 6}

\* the year labels of n samples, per of them a year
YearLabels(n, per) == [ i \in 1..n |-> (i - 1) \div per ]

\* a series of at most MaxLen + 1 samples with its year labels, one or two
\* samples a year, over at most four years
TrendSeries ==
    UNION { { [v |-> v, years |-> YearLabels(n, per)] : v \in [1..n -> TrendValues] }
            : n \in 0..(MaxLen + 1), per \in {1, 2} }

\* obs_hist and cm_hist of the calls
TrendHist ==
    { [v |-> <<2, 4>>, years |-> <<0, 1>>],
      [v |-> <<6, 4, 2>>, years |-> <<0, 1, 2>>],
      [v |-> <<2, 2, 4, 4>>, years |-> <<0, 0, 1, 1>>] }

InitTrend ==
    /\ args \in { c \in TrendCalls : Validate(Attributes(c)) = "" }
    /\ self = Attributes(args)
    /\ pc = "step3"
    /\ raised = ""
    /\ NotCalled /\ marginal = NoMarginal
    /\ library = NoLib
    /\ \E obs \in TrendHist, cmf \in TrendSeries :
        win = Window(obs.v, obs.v, cmf.v, obs.years, obs.years, cmf.years)

\* lines 549-551
Trend_step3 ==
    /\ pc = "step3"
    /\ \E w \in {call_step3(win)} :
        /\ win' = w
        /\ raised' = w.raised
        /\ pc' = IF w.raised # "" THEN "raised" ELSE "step7"
    /\ UNCHANGED <<args, self, library>>
    /\ UNCHANGED avars
    /\ UNCHANGED marginal

\* line 555, on the cm_future and the trend of step3
Trend_step7 ==
    /\ pc = "step7"
    /\ \E w \in {call_step7(win)} :
        /\ win' = w
        /\ pc' = "done"
    /\ UNCHANGED <<args, self, raised, library>>
    /\ UNCHANGED avars
    /\ UNCHANGED marginal

NextTrend ==
    \/ Trend_step3
    \/ Trend_step7

SpecTrend == InitTrend /\ [][NextTrend]_vars

(***************************************************************************)
(* step5 and step6 called one after the other (lines 553-554), for the     *)
(* four trend preservation methods and for bounds and thresholds on either *)
(* side.                                                                   *)
(***************************************************************************)
Lower(c) == [c EXCEPT !.lower_bound = Given(0), !.lower_threshold = Given(1)]

Upper(c) == [c EXCEPT !.upper_bound = Given(4), !.upper_threshold = Given(3)]

Method(c, m) == [c EXCEPT !.trend_preservation_method = Given(m)]

TransferCalls ==
    { ApplyBase, Lower(ApplyBase), Upper(ApplyBase), Lower(Upper(ApplyBase)),
      Method(Lower(Upper(ApplyBase)), "bounded"),
      [Method(ApplyBase, "bounded") EXCEPT !.lower_bound = Given(0), !.upper_bound = Given(4)],
      Method(ApplyBase, "multiplicative"), Method(ApplyBase, "mixed"),
      [ApplyBase EXCEPT !.trend_transfer_only_for_values_within_threshold = Given(FALSE)],
      [Lower(ApplyBase) EXCEPT !.trend_transfer_only_for_values_within_threshold = Given(FALSE)] }

\* obs_hist and cm_hist of the calls
TransferHist == { <<0, 2>>, <<1, 2, 4>>, <<0, 0, 2>>, <<2, 3>>, <<0, 1>>, <<2, 4, 4, 0>> }

TransferValues == {0, 2, 4}

\* cm_future of the calls
TransferFuture == UNION { [1..n -> TransferValues] : n \in 1..(MaxLen + 1) }

\* obs_hist, cm_hist, cm_future whose quantile ratios lie beyond 0.01 and 100
TransferScaled ==
    { <<(<<200, 2>>), (<<300, 300>>), (<<2, 2>>)>>, <<(<<2, 1>>), (<<1, 1>>), (<<202, 202>>)>> }

InitTransfer ==
    /\ args \in { c \in TransferCalls : Validate(Attributes(c)) = "" }
    /\ self = Attributes(args)
    /\ pc = "step5"
    /\ raised = ""
    /\ NotCalled /\ marginal = NoMarginal
    /\ library \in { NoLib, [NoLib EXCEPT !.empty_raises = TRUE] }
    /\ \E in \in (TransferHist \X TransferHist \X TransferFuture) \cup TransferScaled :
        win = Window(in[1], in[2], in[3], <<>>, <<>>, <<>>)

\* line 553
Transfer_step5 ==
    /\ pc = "step5"
    /\ \E w \in {call_step5(win, library)} :
        /\ win' = w
        /\ raised' = w.raised
        /\ pc' = IF w.raised # "" THEN "raised" ELSE "step6"
    /\ UNCHANGED <<args, self, library>>
    /\ UNCHANGED avars
    /\ UNCHANGED marginal

\* line 554
Transfer_step6 ==
    /\ pc = "step6"
    /\ \E w \in {call_step6(win, library)} :
        /\ win' = w
        /\ raised' = w.raised
        /\ pc' = IF w.raised # "" THEN "raised" ELSE "done"
    /\ UNCHANGED <<args, self, library>>
    /\ UNCHANGED avars
    /\ UNCHANGED marginal

NextTransfer ==
    \/ Transfer_step5
    \/ Transfer_step6

SpecTransfer == InitTransfer /\ [][NextTransfer]_vars

(***************************************************************************)
(* calculate_marginal_bias of src/ibicus/evaluate/marginal.py, called with *)
(* no metrics.  statistics is a list of size elements: mean says whether   *)
(* "mean" is one of them, quantiles is its second element.  A quantile is  *)
(* a number of hundredths, data are series at one location.                *)
(***************************************************************************)
\* lines 41-57; a division by zero yields an infinity or nan
_marginal_mean_bias(obs_data, cm_data, bias_type) ==
    LET mean(x) == SumSeq(x) \div Len(x)
    IN  IF bias_type = "percentage"
        THEN Quot(100 * (mean(cm_data) - mean(obs_data)), mean(obs_data))
        ELSE mean(cm_data) - mean(obs_data)

\* lines 60-76; np.quantile interpolates linearly between the order
\* statistics
_marginal_quantile_bias(quantile, obs_data, cm_data, bias_type) ==
    LET np_quantile(x) ==
            LET h == (Len(x) - 1) * quantile
                lower == Sort(x)[(h \div 100) + 1]
                upper == Sort(x)[Min2((h \div 100) + 2, Len(x))]
            IN lower + ((h % 100) * (upper - lower)) \div 100
        qn_obs == np_quantile(obs_data)
    IN  IF quantile < 0 \/ quantile > 100
        THEN [raised |-> "ValueError", qn_bias |-> 0]
        ELSE [raised |-> "",
              qn_bias |-> IF bias_type = "percentage"
                          THEN Quot(100 * (np_quantile(cm_data) - qn_obs), qn_obs)
                          ELSE np_quantile(cm_data) - qn_obs]

\* the calls: statistics [], ["mean"], and one name with a list of up to
\* MaxLen quantiles among -0.1, 0.5 and 1.1
MarginalCalls ==
    [ statistics :
        { [size |-> 0, mean |-> FALSE, quantiles |-> <<>>],
          [size |-> 1, mean |-> TRUE, quantiles |-> <<>>] }
            \cup [ size : {2}, mean : BOOLEAN,
                   quantiles : UNION { [1..n -> {0 - 10, 50, 110}] : n \in 0..MaxLen } ],
      percentage_or_absolute : {"percentage", "absolute"},
      obs : { <<1, 3>>, <<0, 0>> },
      cm_data : { <<(<<2, 4>>)>>, <<(<<2, 4>>), (<<0, 5>>)>> } ]

InitMarginal ==
    /\ args \in MarginalCalls
    /\ self = <<>>
    /\ pc = "mean"
    /\ raised = ""
    /\ NotCalled
    /\ win = NoWindow
    /\ library = NoLib
    /\ marginal = [NoMarginal EXCEPT !.cm_data_key = 1]

Row(metric, bias) ==
    [method |-> marginal.cm_data_key, metric |-> metric,
     type |-> args.percentage_or_absolute, bias |-> bias]

\* lines 147-166 for the current cm_data item
Marginal_mean ==
    /\ pc = "mean"
    /\ \E mean_bias \in { IF args.statistics.mean
                            THEN _marginal_mean_bias(args.obs, args.cm_data[marginal.cm_data_key],
                                                     args.percentage_or_absolute)
                            ELSE 0 } :
        marginal' =
            IF ~args.statistics.mean THEN marginal
            ELSE IF mean_bias \in {Inf, NegInf}
            THEN [marginal EXCEPT !.warned = Append(@, "Division by zero")]
            ELSE [marginal EXCEPT !.marginal_bias_dfs = Append(@, Row("Mean", mean_bias))]
    /\ pc' = "quantiles"
    /\ UNCHANGED <<args, self, raised, wvars>>
    /\ UNCHANGED avars

\* the rows and the warnings of the loop of lines 177-201 over the
\* quantiles qs, added to the record m
QuantileLoop(m, qs) ==
    LET F[k \in 0..Len(qs)] ==
            IF k = 0 THEN m
            ELSE LET r == _marginal_quantile_bias(qs[k], args.obs,
                              args.cm_data[marginal.cm_data_key], args.percentage_or_absolute)
                 IN  IF F[k - 1].raised # "" THEN F[k - 1]
                     ELSE IF r.raised # "" THEN [F[k - 1] EXCEPT !.raised = r.raised]
                     ELSE IF r.qn_bias \in {Inf, NegInf}
                     THEN [F[k - 1] EXCEPT !.warned = Append(@, "Division by zero")]
                     ELSE [F[k - 1] EXCEPT !.marginal_bias_dfs = Append(@, Row(qs[k], r.qn_bias))]
    IN F[Len(qs)]

\* lines 168-201 for the current cm_data item, and the loop over no metrics
\* of line 203: on to the next item or to line 258
Marginal_quantiles ==
    /\ pc = "quantiles"
    /\ LET statistics == args.statistics
           valid == \A k \in Idx(statistics.quantiles) :
                        statistics.quantiles[k] <= 100 /\ statistics.quantiles[k] >= 0
           last == marginal.cm_data_key = Len(args.cm_data)
           next(m) == [m EXCEPT !.cm_data_key = IF last THEN @ ELSE @ + 1]
           continue == IF last THEN "concat" ELSE "mean"
       IN  IF statistics.size = 0
           THEN \* print("no quantiles calculated")
                marginal' = next(marginal) /\ pc' = continue /\ UNCHANGED raised
           ELSE IF statistics.size = 1
           THEN \* statistics[1]
                raised' = "IndexError" /\ pc' = "raised" /\ UNCHANGED marginal
           ELSE IF ~valid
           THEN /\ marginal' = next([marginal EXCEPT !.warned =
                                        Append(@, "No quantiles are calculated.")])
                /\ pc' = continue /\ UNCHANGED raised
           ELSE \E m \in { QuantileLoop([marginal_bias_dfs |-> marginal.marginal_bias_dfs,
                                          warned |-> marginal.warned, raised |-> ""],
                                         statistics.quantiles) } :
                    IF m.raised # ""
                    THEN raised' = m.raised /\ pc' = "raised" /\ UNCHANGED marginal
                    ELSE /\ marginal' = next([marginal EXCEPT
                                                !.marginal_bias_dfs = m.marginal_bias_dfs,
                                                !.warned = m.warned])
                         /\ pc' = continue /\ UNCHANGED raised
    /\ UNCHANGED <<args, self, wvars>>
    /\ UNCHANGED avars

\* lines 258-260: pd.concat of an empty list raises
Marginal_concat ==
    /\ pc = "concat"
    /\ IF marginal.marginal_bias_dfs = <<>>
       THEN raised' = "ValueError" /\ pc' = "raised" /\ UNCHANGED marginal
       ELSE /\ marginal' = [marginal EXCEPT !.plot_data = marginal.marginal_bias_dfs]
            /\ pc' = "returned" /\ UNCHANGED raised
    /\ UNCHANGED <<args, self, wvars>>
    /\ UNCHANGED avars

NextMarginal ==
    \/ Marginal_mean
    \/ Marginal_quantiles
    \/ Marginal_concat

SpecMarginal == InitMarginal /\ [][NextMarginal]_vars

(***************************************************************************)
(* apply_location of ECDFM (src/PACKAGE_NAME/debias/_ecdfm.py) and of      *)
(* EquidistantCDFMatching                                                  *)
(* (src/PACKAGE_NAME/debias/_equidistant_cdf_matching.py), called on       *)
(* non-empty series.  self is the class of the debiaser.                   *)
(***************************************************************************)
ECDFM_apply_location(obs, cmh, cmf) ==
    LET fit_obs == distribution_fit(obs)
        fit_cm_hist == distribution_fit(cmh)
        fit_cm_future == distribution_fit(cmf)
        cdf_vals == distribution_cdf(cmf, fit_cm_future)
    IN  [ i \in Idx(cmf) |->
            cmf[i] + distribution_ppf(cdf_vals, fit_obs)[i]
                   - distribution_ppf(cdf_vals, fit_cm_hist)[i] ]

EquidistantCDFMatching_apply_location(obs, cmh, cmf) ==
    LET fit_obs == distribution_fit(cmh)
        fit_cm_hist == distribution_fit(cmh)
        fit_cm_future == distribution_fit(cmf)
        cdf_vals == distribution_cdf(cmf, fit_cm_future)
    IN  [ i \in Idx(cmf) |->
            cmf[i] + distribution_ppf(cdf_vals, fit_obs)[i]
                   - distribution_ppf(cdf_vals, fit_cm_hist)[i] ]

InitMatching ==
    /\ args = <<>>
    /\ self \in {"ECDFM", "EquidistantCDFMatching"}
    /\ pc = "apply_location"
    /\ raised = ""
    /\ obs_hist \in WindowHist \ {<<>>} /\ cm_hist \in WindowHist \ {<<>>}
    /\ cm_future \in WindowFuture \ {<<>>}
    /\ time_obs_hist = NoTime /\ time_cm_hist = NoTime /\ time_cm_future = NoTime
    /\ i_month = 0 /\ debiased_cm_future = <<>> /\ runs = <<>> /\ writes = <<>>
    /\ result = [returned |-> FALSE, value |-> <<>>]
    /\ win = NoWindow /\ library = NoLib /\ marginal = NoMarginal

Matching_apply_location ==
    /\ pc = "apply_location"
    /\ result' = [returned |-> TRUE,
                  value |-> IF self = "ECDFM"
                            THEN ECDFM_apply_location(obs_hist, cm_hist, cm_future)
                            ELSE EquidistantCDFMatching_apply_location(obs_hist, cm_hist, cm_future)]
    /\ pc' = "returned"
    /\ UNCHANGED <<args, self, raised, wvars, obs_hist, cm_hist, cm_future, time_obs_hist,
                   time_cm_hist, time_cm_future, i_month, debiased_cm_future, runs, writes>>
    /\ UNCHANGED marginal

SpecMatching == InitMatching /\ [][Matching_apply_location]_vars

(***************************************************************************)
(* ISIMIP.from_variable.  The module isimip_options is not among the       *)
(* sources: standard_variables_isimip and the per-variable settings of     *)
(* isimip_2_5 are the default-settings table of the documentation, with    *)
(* the distribution, the trend method and the detrending of each variable  *)
(* (its bounds and thresholds are floats, which the validators accept      *)
(* whatever their value); the run-wide settings isimip_2_5["isimip_run"]   *)
(* are an input of the call.                                               *)
(***************************************************************************)
standard_variables_isimip ==
    {"hurs", "pr", "prsnratio", "psl", "rsds", "sfcWind", "tas", "tasrange", "tasskew"}

isimip_2_5_variables ==
    [ v \in standard_variables_isimip |->
        [ distribution |-> "rv_continuous",
          trend_preservation_method |->
              CASE v \in {"psl", "tas"} -> "additive"
                [] v \in {"pr", "sfcWind", "tasrange"} -> "mixed"
                [] OTHER -> "bounded",
          detrending |-> Py("bool", IF v \in {"psl", "tas"} THEN 1 ELSE 0) ] ]

\* cls(variable=variable, **settings, **isimip_run): the keyword arguments
Keywords(variable, settings, isimip_run) ==
    [ f \in Fields |->
        IF f = "variable" THEN Given(variable)
        ELSE IF f \in DOMAIN settings THEN Given(settings[f])
        ELSE IF f \in DOMAIN isimip_run THEN Given(isimip_run[f])
        ELSE NotGiven(f) ]

\* lines 114-123: what the call raises, with the keys the message of line 117
\* lists, and the keyword arguments of the construction of line 118
from_variable(variable, isimip_run) ==
    IF variable \notin standard_variables_isimip
    THEN [raised |-> "ValueError", message |-> standard_variables_isimip, kw |-> <<>>]
    ELSE IF variable \notin DOMAIN isimip_2_5_variables
    THEN \* ** of None
         [raised |-> "TypeError", message |-> <<>>, kw |-> <<>>]
    ELSE LET kw == Keywords(variable, isimip_2_5_variables[variable], isimip_run)
         IN [raised |-> Validate(Attributes(kw)), message |-> <<>>, kw |-> kw]

\* the names the calls are made with
VariableNames == standard_variables_isimip \cup {"unknown", "temperature", "TAS", "precip", ""}

\* the run-wide settings: with or without the two method names
RunSettings ==
    { [ f \in S |-> IF f = "ecdf_method" THEN "step_function" ELSE "inverted_cdf" ]
        : S \in SUBSET {"ecdf_method", "iecdf_method"} }

\* before the call no instance exists: self is the empty tuple
InitFromVariable ==
    /\ args \in [ variable : VariableNames, isimip_run : RunSettings ]
    /\ self = <<>>
    /\ pc = "from_variable"
    /\ raised = ""
    /\ NotCalled /\ marginal = NoMarginal
    /\ win = NoWindow
    /\ library = NoLib

\* lines 114-123; result holds the instance returned, or the keys the
\* message of the exception lists
ISIMIP_from_variable ==
    /\ pc = "from_variable"
    /\ \E r \in {from_variable(args.variable, args.isimip_run)} :
        /\ raised' = r.raised
        /\ pc' = IF r.raised = "" THEN "returned" ELSE "raised"
        /\ self' = IF r.raised = "" THEN Attributes(r.kw) ELSE self
        /\ result' = IF r.raised = ""
                     THEN [returned |-> TRUE, value |-> Attributes(r.kw)]
                     ELSE [returned |-> FALSE, value |-> r.message]
    /\ UNCHANGED <<args, marginal, win, library>>
    /\ UNCHANGED <<obs_hist, cm_hist, cm_future, time_obs_hist, time_cm_hist, time_cm_future>>
    /\ UNCHANGED <<i_month, debiased_cm_future, runs, writes>>

SpecFromVariable == InitFromVariable /\ [][ISIMIP_from_variable]_vars

(***************************************************************************)
(* for_precipitation of ECDFM and EquidistantCDFMatching, and              *)
(* map_standard_precipitation_method of _variables.py.  The model          *)
(* generators of utils are not among the sources: each returns a           *)
(* StatisticalModel.  The censoring value is counted in tenths.            *)
(***************************************************************************)
\* _variables.py lines 45-66, called with the positional arguments a: what
\* it raises and the method it returns
map_standard_precipitation_method(a) ==
    IF Len(a) > 4
    THEN \* takes from 0 to 4 positional arguments
         [raised |-> "TypeError", method |-> "None"]
    ELSE LET precipitation_model_type == a[1]
             precipitation_amounts_distribution == a[2]
             precipitation_censoring_value == a[3]
         IN  IF precipitation_model_type \notin {"censored", "hurdle"}
             THEN [raised |-> "ValueError", method |-> "None"]
             ELSE IF precipitation_model_type = "censored"
             THEN IF precipitation_amounts_distribution # "gamma"
                  THEN [raised |-> "ValueError", method |-> "None"]
                  ELSE IF precipitation_censoring_value < 0
                  THEN [raised |-> "ValueError", method |-> "None"]
                  ELSE [raised |-> "", method |-> "StatisticalModel"]
             ELSE [raised |-> "", method |-> "StatisticalModel"]

\* cls(**{"distribution": method, "variable": variable.name}) on the method
\* the mapping returned
Debiaser_for_precipitation(mapped) ==
    IF mapped.raised # "" THEN [raised |-> mapped.raised, instance |-> <<>>]
    ELSE [raised |-> distribution_validator(mapped.method),
          instance |-> [distribution |-> mapped.method, variable |-> "Precipitation"]]

\* _ecdfm.py lines 73-111: the mapping is called with five arguments
ECDFM_for_precipitation(model_type, amounts_distribution, censoring_threshold, hurdle_model_randomization) ==
    Debiaser_for_precipitation(map_standard_precipitation_method(
        <<model_type, amounts_distribution, censoring_threshold,
          hurdle_model_randomization, "hurdle_model_kwds_for_distribution_fit">>))

\* _equidistant_cdf_matching.py lines 85-121
EquidistantCDFMatching_for_precipitation(precipitation_model_type, precipitation_amounts_distribution, precipitation_censoring_value, precipitation_hurdle_model_randomization) ==
    Debiaser_for_precipitation(map_standard_precipitation_method(
        <<precipitation_model_type, precipitation_amounts_distribution,
          precipitation_censoring_value, precipitation_hurdle_model_randomization>>))

\* the calls: the three documented model types and another one, the default
\* amounts distribution and another one, censoring values -0.1, 0 and the
\* default 0.1
PrecipitationCalls ==
    [ cls : {"ECDFM", "EquidistantCDFMatching"},
      model_type : {"censored", "hurdle", "ignore_zeros", "zero_inflated"},
      amounts_distribution : {"gamma", "expon"},
      censoring : {0 - 1, 0, 1},
      randomization : BOOLEAN ]

InitForPrecipitation ==
    /\ args \in PrecipitationCalls
    /\ self = <<>>
    /\ pc = "for_precipitation"
    /\ raised = ""
    /\ NotCalled /\ marginal = NoMarginal
    /\ win = NoWindow
    /\ library = NoLib

\* the call cls.for_precipitation(**args); result holds the instance
for_precipitation ==
    /\ pc = "for_precipitation"
    /\ \E r \in { IF args.cls = "ECDFM"
                  THEN ECDFM_for_precipitation(args.model_type, args.amounts_distribution, args.censoring, args.randomization)
                  ELSE EquidistantCDFMatching_for_precipitation(args.model_type, args.amounts_distribution, args.censoring, args.randomization) } :
        /\ raised' = r.raised
        /\ pc' = IF r.raised = "" THEN "returned" ELSE "raised"
        /\ self' = IF r.raised = "" THEN r.instance ELSE self
        /\ result' = [returned |-> r.raised = "", value |-> <<>>]
    /\ UNCHANGED <<args, marginal, win, library>>
    /\ UNCHANGED <<obs_hist, cm_hist, cm_future, time_obs_hist, time_cm_hist, time_cm_future>>
    /\ UNCHANGED <<i_month, debiased_cm_future, runs, writes>>

SpecForPrecipitation == InitForPrecipitation /\ [][for_precipitation]_vars

(***************************************************************************)
(* step4 called on its own (line 552), with bounds and thresholds on       *)
(* either side, on both and on none.                                       *)
(***************************************************************************)
Step4Calls == { ApplyBase, Lower(ApplyBase), Upper(ApplyBase), Lower(Upper(ApplyBase)) }

\* cm_future of the calls: values at and between the bounds 0 and 4 and the
\* thresholds 1 and 3
Step4Future == UNION { [1..n -> 0..4] : n \in 1..(MaxLen + 1) }

InitStep4 ==
    /\ args \in { c \in Step4Calls : Validate(Attributes(c)) = "" }
    /\ self = Attributes(args)
    /\ pc = "step4"
    /\ raised = ""
    /\ NotCalled /\ marginal = NoMarginal
    /\ \E cmf \in Step4Future :
        /\ win = Window(<<>>, <<>>, cmf, <<>>, <<>>, <<>>)
        /\ library \in Libs(Len(cmf))

\* line 552
Step4_call ==
    /\ pc = "step4"
    /\ \E w \in {call_step4(win, library)} :
        /\ win' = w
        /\ raised' = w.raised
        /\ pc' = IF w.raised # "" THEN "raised" ELSE "done"
    /\ UNCHANGED <<args, self, library>>
    /\ UNCHANGED avars
    /\ UNCHANGED marginal

SpecStep4 == InitStep4 /\ [][Step4_call]_vars

(***************************************************************************)
(* The number of entries step 6 sets to a bound, and its mask, computed    *)
(* on their own from three masks of values beyond a threshold (lines       *)
(* 272-291, then 293-297 and 316-320).                                     *)
(***************************************************************************)
\* a boolean array of at most MaxLen + 1 entries: its size and the positions
\* that are True
BeyondMasks ==
    UNION { [ size : {n}, true : SUBSET (1..n) ] : n \in 1..(MaxLen + 1) }

InitCount ==
    /\ args \in [ obs_hist : BeyondMasks, cm_hist : BeyondMasks, cm_future : BeyondMasks ]
    /\ self = Attributes(ApplyBase)
    /\ pc = "_step6_get_nr_of_entries_to_set_to_bound"
    /\ raised = ""
    /\ NotCalled /\ marginal = NoMarginal
    /\ win = NoWindow
    /\ library = NoLib

\* lines 272-291: result holds the local variables and the number returned
Count_get_nr_of_entries_to_set_to_bound ==
    /\ pc = "_step6_get_nr_of_entries_to_set_to_bound"
    /\ \E P_obs_hist \in {_step6_calculate_percent_values_beyond_threshold(args.obs_hist.true, args.obs_hist.size)},
          P_cm_hist \in {_step6_calculate_percent_values_beyond_threshold(args.cm_hist.true, args.cm_hist.size)},
          P_cm_future \in {_step6_calculate_percent_values_beyond_threshold(args.cm_future.true, args.cm_future.size)} :
        result' = [returned |-> TRUE,
                   value |-> [P_obs_hist |-> P_obs_hist, P_cm_hist |-> P_cm_hist,
                              P_cm_future |-> P_cm_future,
                              P_obs_future |-> _step6_get_P_obs_future(P_obs_hist, P_cm_hist, P_cm_future),
                              nr |-> _step6_get_nr_of_entries_to_set_to_bound(
                                        args.obs_hist.true, args.obs_hist.size,
                                        args.cm_hist.true, args.cm_hist.size,
                                        args.cm_future.true, args.cm_future.size)]]
    /\ pc' = "_step6_transform_nr_of_entries_to_mask"
    /\ UNCHANGED <<args, self, raised, marginal, win, library>>
    /\ UNCHANGED <<obs_hist, cm_hist, cm_future, time_obs_hist, time_cm_hist, time_cm_future>>
    /\ UNCHANGED <<i_month, debiased_cm_future, runs, writes>>

\* lines 293-297 and 316-320 on the number returned: debiased_cm_future holds
\* the two masks
Count_transform_nr_of_entries_to_mask ==
    /\ pc = "_step6_transform_nr_of_entries_to_mask"
    /\ debiased_cm_future' =
        [ lower |-> _step6_transform_nr_of_entries_to_set_to_lower_bound_to_mask_for_cm_future(
                        result.value.nr, args.cm_future.size),
          upper |-> _step6_transform_nr_of_entries_to_set_to_upper_bound_to_mask_for_cm_future(
                        result.value.nr, args.cm_future.size) ]
    /\ pc' = "done"
    /\ UNCHANGED <<args, self, raised, marginal, win, library, result>>
    /\ UNCHANGED <<obs_hist, cm_hist, cm_future, time_obs_hist, time_cm_hist, time_cm_future>>
    /\ UNCHANGED <<i_month, runs, writes>>

NextCount ==
    \/ Count_get_nr_of_entries_to_set_to_bound
    \/ Count_transform_nr_of_entries_to_mask

SpecCount == InitCount /\ [][NextCount]_vars

(***************************************************************************)
(* calculate_bias_days_metrics of evaluate/marginal.py, for one location.  *)
(* The threshold metrics are not among the sources: a metric has a name,   *)
(* a threshold value and a threshold type, and its instances of threshold  *)
(* exceedance are 1 where a value lies beyond the threshold, 0 elsewhere.  *)
(* A mean is a fraction [num, den].                                        *)
(***************************************************************************)
calculate_instances_of_threshold_exceedance(metric, dataset) ==
    [ i \in Idx(dataset) |->
        IF \/ metric.threshold_type = "higher" /\ dataset[i] > metric.threshold_value
           \/ metric.threshold_type = "lower" /\ dataset[i] < metric.threshold_value
        THEN 1 ELSE 0 ]

\* the counts of np.unique(year_array, return_counts=True)
UniqueCounts(year_array) ==
    [ k \in Idx(UniqueYears(year_array)) |->
        Cardinality({ i \in Idx(year_array) : year_array[i] = UniqueYears(year_array)[k] }) ]

\* np.split(x, index_array) followed by the sum of each piece: piece j runs
\* from index_array[j - 1] to index_array[j], the last one to the end
SumOfSplit(x, index_array) ==
    [ j \in 1..(Len(index_array) + 1) |->
        SumSeq(Take(x, Slice(Len(x), IF j = 1 THEN 0 ELSE index_array[j - 1],
                                     IF j > Len(index_array) THEN Len(x) ELSE index_array[j]))) ]

\* lines 444-464 for a time array that is not empty: index_array starts as
\* [counts[0]] and gets the sums of the first 2, ..., len(counts) - 1 counts
_yearly_exceedances(metric, dataset, time) ==
    SumOfSplit(calculate_instances_of_threshold_exceedance(metric, dataset),
               [ j \in 1..Max2(1, Len(UniqueCounts(year(time))) - 1) |->
                    SumSeq(SubSeq(UniqueCounts(year(time)), 1, j)) ])

\* lines 467-473: np.mean over the rows
_mean_yearly_exceedances(metric, dataset, time) ==
    Frac(SumSeq(_yearly_exceedances(metric, dataset, time)),
         Len(_yearly_exceedances(metric, dataset, time)))

\* a dataset of at most MaxLen + 1 days with values 0 and 2, its time array
\* ordered by year, over up to three years
DaysData ==
    UNION { [ v : [1..n -> {0, 2}],
              time : { [ i \in 1..n |-> Time(y[i], FirstMonth) ] : y \in SortedSeqs(n, 0..2) } ]
            : n \in 1..(MaxLen + 1) }

\* the metrics of the calls: days above 1 and days below 1
DaysMetrics ==
    << [name |-> "above", threshold_value |-> 1, threshold_type |-> "higher"],
       [name |-> "below", threshold_value |-> 1, threshold_type |-> "lower"] >>

InitDays ==
    /\ args \in [ obs_data : { d \in DaysData : d.v \in {<<2>>, <<0, 2>>, <<2, 2, 0>>} /\ year(d.time)[1] = 0 },
                  metrics : { SubSeq(DaysMetrics, 1, n) : n \in 0..2 },
                  cm_data : { <<d>> : d \in DaysData } ]
    /\ self = <<>>
    /\ pc = "cm_data"
    /\ raised = ""
    /\ NotCalled
    /\ win = NoWindow
    /\ library = NoLib
    /\ marginal = [NoMarginal EXCEPT !.cm_data_key = 1]

\* lines 539-557 for the metric m of the current cm_data item: the row
DaysRow(m) ==
    LET cm_data_value == args.cm_data[marginal.cm_data_key]
        difference(cm_mean, obs_mean) ==
            [method |-> marginal.cm_data_key, metric |-> m.name,
             cm |-> cm_mean, obs |-> obs_mean,
             bias |-> Frac(cm_mean.num * obs_mean.den - obs_mean.num * cm_mean.den,
                           cm_mean.den * obs_mean.den)]
    IN difference(_mean_yearly_exceedances(m, cm_data_value.v, cm_data_value.time),
                  _mean_yearly_exceedances(m, args.obs_data.v, args.obs_data.time))

\* lines 526-557 for the current cm_data item: a row per metric
Days_cm_data ==
    /\ pc = "cm_data"
    /\ marginal' = [marginal EXCEPT
            !.marginal_bias_dfs = @ \o [ k \in Idx(args.metrics) |-> DaysRow(args.metrics[k]) ],
            !.cm_data_key = IF @ = Len(args.cm_data) THEN @ ELSE @ + 1]
    /\ pc' = IF marginal.cm_data_key = Len(args.cm_data) THEN "concat" ELSE "cm_data"
    /\ UNCHANGED <<args, self, raised, wvars>>
    /\ UNCHANGED avars

\* line 559: pd.concat of an empty list raises
Days_concat ==
    /\ pc = "concat"
    /\ IF marginal.marginal_bias_dfs = <<>>
       THEN raised' = "ValueError" /\ pc' = "raised" /\ UNCHANGED marginal
       ELSE /\ marginal' = [marginal EXCEPT !.plot_data = marginal.marginal_bias_dfs]
            /\ pc' = "returned" /\ UNCHANGED raised
    /\ UNCHANGED <<args, self, wvars>>
    /\ UNCHANGED avars

NextDays ==
    \/ Days_cm_data
    \/ Days_concat

SpecDays == InitDays /\ [][NextDays]_vars

(***************************************************************************)
(* Claims about construction, checked under SpecConfig.                    *)
(***************************************************************************)
\* a positive integer, as Python counts integers
IsPositiveInt(x) == x.type \in {"int", "bool"} /\ x.v >= 1

\* what C7 requires of the arguments of a call
C7_Requirements(s) ==
    /\ s.trend_preservation_method \in {"additive", "multiplicative", "mixed", "bounded"}
    /\ s.detrending.type = "bool"
    /\ \/ s.reasonable_physical_range.isNone
       \/ /\ Len(s.reasonable_physical_range.elems) = 2
          /\ s.reasonable_physical_range.numeric
          /\ s.reasonable_physical_range.elems[1] < s.reasonable_physical_range.elems[2]
    /\ IsPositiveInt(s.running_window_length)
    /\ IsPositiveInt(s.running_window_step_length)

\* C7: a construction whose trend_preservation_method is not one of the four
\* methods, whose detrending is not a bool, whose reasonable_physical_range
\* has not two entries, has a non-numeric entry or has first entry >= second,
\* or whose running_window_length or running_window_step_length is not a
\* positive integer, ends in an exception; every constructed instance meets
\* all of these requirements.
C7_InvalidConfigurationRejected ==
    /\ (pc = "constructed" => C7_Requirements(self))
    /\ (pc # "new" /\ ~C7_Requirements(Attributes(args))
            => pc = "failed" /\ raised \in {"ValueError", "TypeError"})

\* C7 witness: a call that is valid but for a range with equal entries has
\* been rejected
C7_Witness ==
    /\ pc = "failed"
    /\ raised = "ValueError"
    /\ args.reasonable_physical_range = Given(Range(<<1, 1>>, TRUE))
    /\ args.distribution.v = "rv_continuous"
    /\ args.trend_preservation_method.v = "additive"
    /\ args.detrending.v.type = "bool"
    /\ args.ecdf_method.given /\ args.iecdf_method.given
    /\ ~args.running_window_length.given
    /\ ~args.running_window_step_length.given

\* C8: every constructed instance that was given a lower bound and a lower
\* threshold has lower_bound <= lower_threshold, and every one that was
\* given an upper bound and an upper threshold has
\* upper_threshold <= upper_bound.
C8_BoundThresholdOrdering ==
    pc = "constructed" =>
        /\ (args.lower_bound.given /\ args.lower_threshold.given
                => self.lower_bound <= self.lower_threshold)
        /\ (args.upper_bound.given /\ args.upper_threshold.given
                => self.upper_threshold <= self.upper_bound)

\* C9: every constructed instance with trend_preservation_method "bounded"
\* has a finite lower_bound and a finite upper_bound.
C9_BoundedHasFiniteBounds ==
    pc = "constructed" /\ self.trend_preservation_method = "bounded"
        => IsFinite(self.lower_bound) /\ IsFinite(self.upper_bound)

\* the call gives valid values for the three required fields
RequiredFieldsValid ==
    /\ distribution_validator(args.distribution.v) = ""
    /\ trend_preservation_method_validator(args.trend_preservation_method.v) = ""
    /\ detrending_validator(args.detrending.v) = ""

\* C27: a construction that gives valid values for the required fields and
\* leaves every other field at its default is accepted, as each default
\* passes the validator of its field.
C27_DefaultsAccepted ==
    (/\ pc # "new" /\ RequiredFieldsValid
     /\ \A f \in DOMAIN Defaults : ~args[f].given)
        => pc = "constructed" /\ raised = ""

\* C27 with ecdf_method and iecdf_method given and every other field at its
\* default, which holds
C27_DefaultsButMethodsAccepted ==
    (/\ pc # "new" /\ RequiredFieldsValid
     /\ \A f \in DOMAIN Defaults : args[f].given <=> f \in {"ecdf_method", "iecdf_method"})
        => pc = "constructed" /\ raised = ""

(***************************************************************************)
(* Claims about apply_location, checked under Spec.                        *)
(***************************************************************************)
\* the exceptions of the physical range check
RangeErrors == {"ValueError: obs_hist", "ValueError: cm_hist", "ValueError: cm_future"}

\* no step has run, nothing is returned and no output array exists
NothingRun ==
    /\ runs = <<>>
    /\ ~result.returned
    /\ debiased_cm_future = <<>>
    /\ i_month = 0

\* x has a value below lo or above hi
OutOfRange(x, lo, hi) == \E i \in DOMAIN x : x[i] < lo \/ x[i] > hi

\* the positions of a label array in calendar month m
PositionsOfMonth(t, m) == { i \in DOMAIN t : t[i].month = m }

\* the entries of x at the positions P, in the order of x
RECURSIVE Select(_, _)
Select(x, P) ==
    IF P = {} THEN <<>>
    ELSE LET last == CHOOSE i \in P : \A j \in P : j <= i
         IN Append(Select(x, P \ {last}), x[last])

\* the years of a label array
YearsOf(t) == [ i \in DOMAIN t |-> t[i].year ]

\* C1: whenever apply_location returns, it returns len(cm_future) entries;
\* in running window mode entry i is cm_future[i]; in monthly mode position
\* i has been assigned exactly once, by the run of the calendar month of
\* time_cm_future[i], which was given cm_future[i] as its k-th sample and
\* whose k-th result is entry i of the output, k counting the positions of
\* that month up to i.
C1_OutputAlignedWithInput ==
    pc = "returned" =>
        /\ result.returned
        /\ Len(result.value) = Len(cm_future)
        /\ self.running_window_mode => \A i \in DOMAIN cm_future : result.value[i] = cm_future[i]
        /\ ~self.running_window_mode =>
            \A i \in DOMAIN cm_future :
                LET m == time_cm_future.t[i].month
                    k == Cardinality({ j \in 1..i : time_cm_future.t[j].month = m })
                IN  /\ writes[i] = <<m>>
                    /\ runs[m].i_month = m
                    /\ runs[m].cm_future[k] = cm_future[i]
                    /\ result.value[i] = runs[m].ret[k]

\* C1 witness: a monthly call has returned two entries whose months are in
\* descending order, each written by the run of its month
C1_Witness ==
    /\ pc = "returned"
    /\ ~self.running_window_mode
    /\ Len(cm_future) = 2
    /\ time_cm_future.t[1].month = LastMonth
    /\ time_cm_future.t[2].month = FirstMonth
    /\ writes = << <<LastMonth>>, <<FirstMonth>> >>
    /\ Len(obs_hist) > 0
    /\ result.value[1] # result.value[2]

\* C3: once the physical range check is done, a series with a value below
\* lo or above hi has ended the call in the ValueError naming the first such
\* series in the order obs_hist, cm_hist, cm_future, with no step run, no
\* mode branch taken and nothing returned; series whose values lie in
\* [lo, hi], ends included, and calls without a range raise no such error.
C3_PhysicalRangeChecked ==
    pc # "apply_location" =>
        LET range == self.reasonable_physical_range
            lo == range.elems[1]
            hi == range.elems[2]
            first == IF OutOfRange(obs_hist, lo, hi) THEN "ValueError: obs_hist"
                     ELSE IF OutOfRange(cm_hist, lo, hi) THEN "ValueError: cm_hist"
                     ELSE IF OutOfRange(cm_future, lo, hi) THEN "ValueError: cm_future"
                     ELSE ""
        IN  IF range.isNone THEN raised \notin RangeErrors
            ELSE IF first # "" THEN pc = "raised" /\ raised = first /\ NothingRun
            ELSE raised \notin RangeErrors

\* C3 witness: obs_hist holds both ends of the range, cm_hist and cm_future
\* each hold a value above it, and the call has raised naming cm_hist
C3_Witness ==
    /\ pc = "raised"
    /\ raised = "ValueError: cm_hist"
    /\ self.reasonable_physical_range.elems = <<1, 2>>
    /\ obs_hist = <<1, 2>>
    /\ cm_hist = <<3>>
    /\ \E i \in DOMAIN cm_future : cm_future[i] = 3
    /\ NothingRun

\* one of the three time arrays is None
AnyTimeNone == time_obs_hist.isNone \/ time_cm_hist.isNone \/ time_cm_future.isNone

\* C4: a call with running_window_mode False and a time array None has,
\* once past the mode branch, raised a ValueError - the one asking for time
\* information if the physical range check passed - with no step run for
\* any month, no output array and nothing returned.
C4_MonthlyModeNeedsTime ==
    pc \notin {"apply_location", "mode"} /\ ~self.running_window_mode /\ AnyTimeNone =>
        /\ pc = "raised"
        /\ raised \in RangeErrors \cup {"ValueError: requires time information"}
        /\ raised \notin RangeErrors => raised = "ValueError: requires time information"
        /\ NothingRun

\* C4 witness: only time_cm_hist is None, the series are not empty, and the
\* call has raised for the missing time information
C4_Witness ==
    /\ pc = "raised"
    /\ raised = "ValueError: requires time information"
    /\ ~self.running_window_mode
    /\ ~time_obs_hist.isNone /\ time_cm_hist.isNone /\ ~time_cm_future.isNone
    /\ Len(obs_hist) > 0 /\ Len(cm_hist) > 0 /\ Len(cm_future) > 0

\* C5: a call with running_window_mode True that passed the physical range
\* check has, once past the mode branch, returned cm_future entry for entry,
\* with no step run and no output array made, with and without time arrays.
C5_RunningWindowPassThrough ==
    pc \notin {"apply_location", "mode"} /\ self.running_window_mode
            /\ raised \notin RangeErrors =>
        /\ pc = "returned"
        /\ result = [returned |-> TRUE, value |-> cm_future]
        /\ runs = <<>>
        /\ debiased_cm_future = <<>>
        /\ i_month = 0

\* C5 witness: a running window call without time arrays has returned a
\* cm_future of two different values
C5_Witness ==
    /\ pc = "returned"
    /\ self.running_window_mode
    /\ AnyTimeNone
    /\ Len(cm_future) = 2
    /\ cm_future[1] # cm_future[2]
    /\ result.value = cm_future

\* C6: in monthly mode the k-th run is the run of calendar month k; it was
\* given the samples of obs_hist, cm_hist and cm_future labelled with that
\* month and nothing else; what it returned or raised is what
\* _apply_on_window yields on these samples and their years alone; a run
\* that returns, returns one value per sample; a call that returned has run
\* the twelve months, and its output at the positions of month m is what
\* the run of month m returned.
C6_MonthlyPartition ==
    pc \in {"loop", "returned", "raised"} /\ ~self.running_window_mode =>
        /\ \A k \in DOMAIN runs :
            LET r == runs[k]
                Pobs == PositionsOfMonth(time_obs_hist.t, k)
                Pcmh == PositionsOfMonth(time_cm_hist.t, k)
                Pcmf == PositionsOfMonth(time_cm_future.t, k)
            IN  /\ r.i_month = k
                /\ k <= 12
                /\ r.obs_hist = Select(obs_hist, Pobs)
                /\ r.cm_hist = Select(cm_hist, Pcmh)
                /\ r.cm_future = Select(cm_future, Pcmf)
                /\ r.raised = "" => Len(r.ret) = Len(r.cm_future)
                /\ r.raised # "" => k = Len(runs) /\ pc = "raised" /\ raised = r.raised
                /\ \E l \in Libs(Len(r.cm_future)) :
                    \E w \in {_apply_on_window(
                                r.obs_hist, r.cm_hist, r.cm_future,
                                Select(YearsOf(time_obs_hist.t), Pobs),
                                Select(YearsOf(time_cm_hist.t), Pcmh),
                                Select(YearsOf(time_cm_future.t), Pcmf), l)} :
                        w.raised = r.raised /\ (r.raised = "" => w.cm_future = r.ret)
        /\ pc = "returned" =>
            /\ Len(runs) = 12
            /\ \A m \in 1..12 :
                Select(result.value, PositionsOfMonth(time_cm_future.t, m)) = runs[m].ret

\* C6 witness: a monthly call on series with samples in all twelve months
\* has returned, every run having had samples of each series
C6_Witness ==
    /\ pc = "returned"
    /\ ~self.running_window_mode
    /\ Len(runs) = 12
    /\ \A m \in 1..12 :
        Len(runs[m].obs_hist) > 0 /\ Len(runs[m].cm_hist) > 0 /\ Len(runs[m].cm_future) > 0
    /\ Len(runs[1].cm_future) = 2
    /\ result.value # cm_future

(***************************************************************************)
(* Claims about _apply_on_window, checked under SpecWindow.                *)
(***************************************************************************)
\* C2: the steps a call of _apply_on_window has called so far are step1,
\* step2, ..., each once and in this order; no step follows one that
\* raised; a call that returned has called all eight and returns what step8
\* returned; step5 was given the cm_future step4 returned, step6 the
\* obs_future step5 returned, and step7 the trend step3 returned.
C2_StepsOnceInOrder ==
    LET log == win.log
        order == <<"step1", "step2", "step3", "step4", "step5", "step6", "step7", "step8">>
    IN  /\ Len(log) <= 8
        /\ \A k \in DOMAIN log : log[k].step = order[k]
        /\ \A k \in DOMAIN log : log[k].ret = <<>> => k = Len(log) /\ pc = "raised"
        /\ pc = "raised" => Len(log) > 0 /\ log[Len(log)].ret = <<>>
        /\ pc = "returned" => Len(log) = 8 /\ result.returned /\ result.value = log[8].ret[1]
        /\ Len(log) >= 5 => log[5].args[3] = log[4].ret[1]
        /\ Len(log) >= 6 => log[6].args[2] = log[5].ret[1]
        /\ Len(log) >= 7 => log[7].args[2] = log[3].ret[4]

\* C2 witness: a detrending call has returned after its eight steps, step3
\* having removed a trend that is not zero, step5 having returned an
\* obs_future other than obs_hist
C2_Witness ==
    /\ pc = "returned"
    /\ self.detrending.v = 1
    /\ Len(win.log) = 8
    /\ \E i \in DOMAIN win.log[3].ret[4] : win.log[3].ret[4][i] # 0
    /\ win.log[7].ret[1] # win.log[7].args[1]
    /\ win.log[5].ret[1] # win.log[5].args[1]

\* C10: an instance constructed without lower_bound, lower_threshold,
\* upper_bound and upper_threshold has none of the four (has_lower_bound,
\* has_lower_threshold, has_upper_bound, has_upper_threshold are False), its
\* finite values all lie between the thresholds, step4 returns the
\* cm_future it was given and no entry step6 returns is a bound.
C10_DefaultBoundsAreAbsent ==
    ~args.lower_bound.given /\ ~args.lower_threshold.given
            /\ ~args.upper_bound.given /\ ~args.upper_threshold.given =>
        /\ ~has_lower_bound(self) /\ ~has_lower_threshold(self)
        /\ ~has_upper_bound(self) /\ ~has_upper_threshold(self)
        /\ _get_mask_for_values_between_thresholds(self, win.cm_future)
                = { i \in DOMAIN win.cm_future : IsFinite(win.cm_future[i]) }
        /\ Len(win.log) >= 4 => win.log[4].ret = win.log[4].args
        /\ Len(win.log) >= 6 /\ win.log[6].ret # <<>> =>
                \A i \in DOMAIN win.log[6].ret[1] :
                    win.log[6].ret[1][i] \notin {self.lower_bound, self.upper_bound}

(***************************************************************************)
(* Claims about the trend removal, checked under SpecTrend.                *)
(***************************************************************************)
\* C11: with detrending True, step3 on series that are not empty returns,
\* with a detrended cm_future and a trend both as long as cm_future whose
\* sum is cm_future entry for entry, and step7 on the two returns cm_future;
\* with detrending False step3 returns the three series as given with a
\* trend of zeros and step7 returns what it is given.
C11_TrendRoundTrip ==
    pc \in {"step7", "done", "raised"} /\ (\A k \in 1..3 : Len(win.log[1].args[k]) > 0) =>
        LET given == win.log[1].args
            ret == win.log[1].ret
        IN  /\ pc # "raised"
            /\ Len(ret[1]) = Len(given[1]) /\ Len(ret[2]) = Len(given[2])
            /\ Len(ret[3]) = Len(given[3]) /\ Len(ret[4]) = Len(given[3])
            /\ \A i \in DOMAIN given[3] : ret[3][i] + ret[4][i] = given[3][i]
            /\ self.detrending.v # 1 =>
                /\ <<ret[1], ret[2], ret[3]>> = given
                /\ \A i \in DOMAIN ret[4] : ret[4][i] = 0
            /\ pc = "done" =>
                /\ win.log[2].ret[1] = given[3]
                /\ self.detrending.v # 1 => win.log[2].ret[1] = win.log[2].args[1]

\* C12: with detrending on and year labels giving at least two years, the
\* trend that step 3 removes from cm_future is zero everywhere only when
\* trend_removal_with_significance_test is True and the regression of the
\* yearly means is not significant (pvalue >= 0.05); in every other case,
\* the flag being False included, its entries are
\* slope * (year_index - mean(year_index)) of the sample's chunk.
C12_TrendRemovedUnlessInsignificant ==
    pc \in {"step7", "done"} /\ self.detrending.v = 1 =>
        LET x == win.log[1].args[3]
            annual_means == get_yearly_mean(x, win.years_cm_future)
            trend == win.log[1].ret[4]
            kept == self.trend_removal_with_significance_test
                        /\ ~linregress_significant(annual_means)
        IN  Len(annual_means) >= 2 =>
                \A i \in Idx(trend) :
                    trend[i] = IF kept THEN 0
                               ELSE linregress_trend(annual_means,
                                        (i - 1) \div self.running_window_length.v)

\* the index, counted from 0, of the year of sample i among the years of the
\* labels
YearIndex(years, i) == Cardinality({ y \in { years[j] : j \in Idx(years) } : y < years[i] })

\* C25: with detrending on and year labels given, step3 returns and the
\* trend it removed from sample i of cm_future is the trend of the year the
\* sample is labelled with: slope * (t_i - mean(t)) when the trend is removed,
\* 0 when it is not, for any number of samples per year.
C25_TrendOfOwnYear ==
    (/\ pc \in {"step7", "done", "raised"} /\ self.detrending.v = 1
     /\ \A k \in 1..3 : Len(win.log[1].args[k]) > 0) =>
        LET x == win.log[1].args[3]
            annual_means == get_yearly_mean(x, win.years_cm_future)
            removed == self.trend_removal_with_significance_test
                        /\ linregress_significant(annual_means)
        IN  /\ pc # "raised"
            /\ Len(win.log[1].ret[4]) = Len(x)
            /\ \A i \in Idx(x) :
                win.log[1].ret[4][i] =
                    IF removed
                    THEN linregress_trend(annual_means, YearIndex(win.years_cm_future, i))
                    ELSE 0

\* C25 for one sample a year and a running_window_length of 1, where the
\* chunks of line 202 are the years
C25_OneSampleAYear ==
    (/\ self.running_window_length.v = 1
     /\ \A i \in Idx(win.years_cm_future) : win.years_cm_future[i] = i - 1
     /\ \A i \in Idx(win.years_obs_hist) : win.years_obs_hist[i] = i - 1)
        => C25_TrendOfOwnYear

(***************************************************************************)
(* Claims about the trend transfer and the quantile mapping, checked under *)
(* SpecTransfer.                                                           *)
(***************************************************************************)
Within(x, a, b) == \A i \in Idx(x) : a <= x[i] /\ x[i] <= b

\* C13: with trend_preservation_method "bounded" and finite lower_bound a and
\* upper_bound b, for obs_hist, cm_hist and cm_future with values in
\* [a, b], every value of the pseudo future observations of step 5 and
\* every value of the cm_future that step 6 returns lies in [a, b].
C13_BoundedStaysWithinBounds ==
    /\ pc \in {"step6", "done"}
    /\ self.trend_preservation_method = "bounded"
    /\ IsFinite(self.lower_bound) /\ IsFinite(self.upper_bound)
    /\ \A k \in 1..3 : Within(win.log[1].args[k], self.lower_bound, self.upper_bound)
    => /\ Within(win.log[1].ret[1], self.lower_bound, self.upper_bound)
       /\ pc = "done" => Within(win.log[2].ret[1], self.lower_bound, self.upper_bound)

\* the quantiles of cm_hist and cm_future at the ranks of the obs_hist that
\* step 5 was called with
QuantilesStep5 ==
    LET given == win.log[1].args
        p == ecdf(given[1], given[1])
    IN  [obs_hist |-> given[1], q_cm_hist |-> iecdf(given[2], p),
         q_cm_future |-> iecdf(given[3], p), ret |-> win.log[1].ret[1]]

\* C15: in step 5 with the multiplicative method, and with the mixed method
\* where gamma is 1 (q_cm_hist >= obs_hist), the value returned for a sample
\* is obs_hist times a factor in [0.01, 100]: the factor is 1 where
\* q_cm_hist is 0, and q_cm_future / q_cm_hist elsewhere, replaced by 0.01
\* when it is smaller and by 100 when it is larger.
C15_MultiplicativeFactorClamped ==
    pc \in {"step6", "done"} /\ self.trend_preservation_method \in {"multiplicative", "mixed"} =>
        LET q == QuantilesStep5
        IN \A i \in Idx(q.obs_hist) :
            (self.trend_preservation_method = "mixed" => q.q_cm_hist[i] >= q.obs_hist[i])
            => \E num \in 0..(100 * Max2(q.q_cm_future[i], 1)), den \in {1, 100, Max2(q.q_cm_hist[i], 1)} :
                /\ den <= 100 * num /\ num <= 100 * den
                /\ q.ret[i] = (q.obs_hist[i] * num) \div den
                /\ q.q_cm_hist[i] = 0 => num = den
                /\ q.q_cm_hist[i] # 0 =>
                    LET low == 100 * q.q_cm_future[i] < q.q_cm_hist[i]
                        high == q.q_cm_future[i] > 100 * q.q_cm_hist[i]
                    IN  /\ low => num = 1 /\ den = 100
                        /\ high => num = 100 /\ den = 1
                        /\ ~low /\ ~high => num = q.q_cm_future[i] /\ den = q.q_cm_hist[i]

\* a sample whose quantile ratio exceeds 100 has been multiplied by 100
C15_Witness ==
    /\ pc = "step6" /\ self.trend_preservation_method = "multiplicative"
    /\ \E i \in Idx(QuantilesStep5.obs_hist) :
        /\ QuantilesStep5.q_cm_hist[i] > 0
        /\ QuantilesStep5.q_cm_future[i] > 100 * QuantilesStep5.q_cm_hist[i]
        /\ QuantilesStep5.obs_hist[i] > 0
        /\ QuantilesStep5.ret[i] = 100 * QuantilesStep5.obs_hist[i]

\* C14: step 6 preserves the rank order of cm_future: it returns one value per
\* sample, and for all positions i, j where the cm_future it was given has
\* cm_future[i] < cm_future[j], the returned values satisfy
\* out[i] <= out[j], a comparison that is false when a value is nan.  (The
\* claim also asks this of equal cm_future values.)
C14_RankOrderPreserved ==
    pc = "done" =>
        LET given == win.log[2].args[4]
            out == win.log[2].ret[1]
        IN  /\ Len(out) = Len(given)
            /\ \A i, j \in Idx(given) :
                    given[i] < given[j] => out[i] # NaN /\ out[j] # NaN /\ out[i] <= out[j]

\* the call of step 6: its arguments, what it returned, and the counts
\* round(n * P_obs_future) of the two sides
Step6Call ==
    LET given == win.log[2].args
        count(beyond(_)) ==
            _step6_get_nr_of_entries_to_set_to_bound(
                beyond(Sort(given[1])), Len(given[1]), beyond(Sort(given[3])), Len(given[3]),
                beyond(Sort(given[4])), Len(given[4]))
        lower(x) == _get_mask_for_values_beyond_lower_threshold(self, x)
        upper(x) == _get_mask_for_values_beyond_upper_threshold(self, x)
    IN  [cm_future |-> given[4], out |-> win.log[2].ret[1],
         nr_lower |-> count(lower), nr_upper |-> count(upper),
         own_lower |-> Cardinality(lower(given[4])), own_upper |-> Cardinality(upper(given[4]))]

\* C16: in step 6 with a lower threshold configured, the positions of the
\* output that hold the exact lower_bound are the positions of the
\* round(n * P_obs_future) smallest entries of cm_future, with
\* n = len(cm_future) and P_obs_future the branch-rule result for the
\* fractions of obs_hist, cm_hist and cm_future at or below the threshold;
\* likewise with an upper threshold, upper_bound and the largest entries.
C16_CountSetToBound ==
    pc = "done" =>
        LET c == Step6Call
            n == Len(c.cm_future)
        IN  /\ has_lower_threshold(self) =>
                { i \in Idx(c.out) : c.out[i] = self.lower_bound }
                    = { i \in Idx(c.cm_future) : Rank(c.cm_future, i) <= c.nr_lower }
            /\ has_upper_threshold(self) =>
                { i \in Idx(c.out) : c.out[i] = self.upper_bound }
                    = { i \in Idx(c.cm_future) : Rank(c.cm_future, i) > n - c.nr_upper }

\* C28: in step 6 with a lower and an upper threshold configured, the sorted
\* entries set to the lower bound (the first nr_lower) and those set to the
\* upper bound (the last nr_upper) are disjoint, and the output holds the
\* lower bound at nr_lower positions at least: the assignment of the upper
\* bound overwrites none of them.
C28_BoundMasksDisjoint ==
    pc = "done" /\ has_lower_threshold(self) /\ has_upper_threshold(self) =>
        LET c == Step6Call
            n == Len(c.cm_future)
        IN  /\ { r \in 1..n : r <= c.nr_lower } \cap { r \in 1..n : r > n - c.nr_upper } = {}
            /\ Cardinality({ i \in Idx(c.out) : c.out[i] = self.lower_bound }) >= c.nr_lower

\* C28 for calls whose two counts add up to no more than the entries of
\* cm_future, which holds
C28_DisjointWhenCountsFit ==
    (pc = "done" /\ has_lower_threshold(self) /\ has_upper_threshold(self)
        /\ Step6Call.nr_lower + Step6Call.nr_upper <= Len(Step6Call.cm_future))
        => C28_BoundMasksDisjoint

\* C17: for both values of trend_transfer_only_for_values_within_threshold a
\* call of step5 that does not raise returns a series with one value per
\* sample of obs_hist; when the flag is False the values of obs_hist that
\* are not strictly between the thresholds are returned unchanged.
C17_Step5ReturnsSeries ==
    pc \in {"step6", "done"} \/ (pc = "raised" /\ Len(win.log) = 2) =>
        LET given == win.log[1].args[1]
            ret == win.log[1].ret[1]
        IN  /\ ~win.obs_future_isNone
            /\ Len(ret) = Len(given)
            /\ ~self.trend_transfer_only_for_values_within_threshold =>
                    \A i \in Idx(given) :
                        i \notin _get_mask_for_values_between_thresholds(self, given)
                            => ret[i] = given[i]

(***************************************************************************)
(* Claims about the evaluation functions, checked under SpecMarginal.      *)
(***************************************************************************)
\* C18: a call of calculate_marginal_bias whose list of quantiles holds a
\* value below 0 or above 1 fails with an error: it does not return a
\* result.
C18_InvalidQuantileIsAnError ==
    pc = "returned" =>
        \A k \in Idx(args.statistics.quantiles) :
            0 <= args.statistics.quantiles[k] /\ args.statistics.quantiles[k] <= 100

(***************************************************************************)
(* Claims about the CDF matching debiasers, checked under SpecMatching.    *)
(***************************************************************************)
\* C19: apply_location of EquidistantCDFMatching (as that of ECDFM) returns,
\* for every value x of cm_future,
\* x + ppf(c, fit(obs)) - ppf(c, fit(cm_hist)) with c = cdf(x, fit(cm_future)).
C19_EquidistantUsesObs ==
    pc = "returned" =>
        LET c == distribution_cdf(cm_future, distribution_fit(cm_future))
        IN  /\ Len(result.value) = Len(cm_future)
            /\ \A i \in Idx(cm_future) :
                result.value[i] = cm_future[i] + distribution_ppf(c, distribution_fit(obs_hist))[i]
                                    - distribution_ppf(c, distribution_fit(cm_hist))[i]

(***************************************************************************)
(* Idempotence of _apply_on_window, checked under SpecWindow.              *)
(***************************************************************************)
\* the calls the idempotence claim is about: additive trend preservation, no
\* detrending, no bound and no threshold, no event likelihood adjustment,
\* and a non-empty obs_hist equal to cm_hist element-wise
PerfectMatch ==
    /\ pc = "returned"
    /\ self.trend_preservation_method = "additive" /\ self.detrending.v # 1
    /\ ~has_lower_bound(self) /\ ~has_lower_threshold(self)
    /\ ~has_upper_bound(self) /\ ~has_upper_threshold(self)
    /\ ~self.event_likelihood_adjustment
    /\ self.trend_transfer_only_for_values_within_threshold
    /\ win.log[1].args[1] = win.log[1].args[2] /\ win.log[1].args[1] # <<>>

\* C20 as stated: under a perfect match the array _apply_on_window returns
\* equals the cm_future it was given, element-wise.
C20_Idempotent == PerfectMatch => result.value = win.log[1].args[3]

\* the values of a series are pairwise different
Distinct(x) == \A i \in Idx(x) : \A j \in Idx(x) : x[i] = x[j] => i = j

\* C20, amended: under a perfect match with as many samples in obs_hist as
\* in cm_future and no value occurring twice in obs_hist, the array
\* _apply_on_window returns equals the cm_future it was given, element-wise.
C20_IdempotentOnEqualLengths ==
    (/\ PerfectMatch
     /\ Len(win.log[1].args[1]) = Len(win.log[1].args[3])
     /\ Distinct(win.log[1].args[1]))
        => result.value = win.log[1].args[3]

\* a perfect match of two samples each, cm_future holding other values than
\* obs_hist and not in ascending order
C20_Witness ==
    /\ PerfectMatch
    /\ win.log[1].args[1] = <<1, 2>> /\ win.log[1].args[3] = <<3, 1>>
    /\ result.value = <<3, 1>>

C21_UnknownNameRaises ==
    pc # "from_variable" /\ args.variable \notin standard_variables_isimip =>
        /\ pc = "raised" /\ raised = "ValueError"
        /\ result.value = standard_variables_isimip
        /\ ~result.returned /\ self = <<>>

\* the second half of C21 for run-wide settings that name both methods
C21_KnownNameWithMethods ==
    (/\ pc # "from_variable" /\ args.variable \in standard_variables_isimip
     /\ DOMAIN args.isimip_run = {"ecdf_method", "iecdf_method"})
        => pc = "returned" /\ result.returned /\ result.value.variable = args.variable

\* the arguments of the call other than the model type are the defaults
DefaultPrecipitationArguments ==
    args.amounts_distribution = "gamma" /\ args.censoring = 1 /\ args.randomization

\* C22: for_precipitation called with a documented model type and the
\* defaults of its other arguments has returned an instance with the
\* variable Precipitation and a statistical model; called with another
\* model type it has raised a ValueError.
C22_ForPrecipitation ==
    pc # "for_precipitation" /\ DefaultPrecipitationArguments =>
        IF args.model_type \in {"censored", "hurdle", "ignore_zeros"}
        THEN /\ pc = "returned"
             /\ self = [distribution |-> "StatisticalModel", variable |-> "Precipitation"]
        ELSE pc = "raised" /\ raised = "ValueError"

\* what does hold: EquidistantCDFMatching returns an instance for "censored"
\* and "hurdle"
C22_EquidistantCensoredHurdle ==
    (/\ pc # "for_precipitation" /\ DefaultPrecipitationArguments
     /\ args.cls = "EquidistantCDFMatching" /\ args.model_type \in {"censored", "hurdle"})
        => pc = "returned" /\ self = [distribution |-> "StatisticalModel", variable |-> "Precipitation"]

\* ECDFM.for_precipitation returns for no arguments
C22_ECDFMAlwaysRaises ==
    pc # "for_precipitation" /\ args.cls = "ECDFM" => raised = "TypeError"

(***************************************************************************)
(* Claims about step4, checked under SpecStep4.  The cm_future given to    *)
(* the step is win.log[1].args[1], the one it returned win.cm_future.      *)
(***************************************************************************)
\* step4 has ended; x is the array it was given
AfterStep4 == pc # "step4"

\* C23: with an upper bound and an upper threshold configured, step4 returns;
\* every position whose value was >= upper_threshold then holds a value in
\* [upper_threshold, upper_bound], every position whose value was strictly
\* between the thresholds holds its value, and every position the lower side
\* selected (value <= lower_threshold) holds a value the upper side did not
\* write, one <= lower_threshold.
C23_SidesIndependent ==
    AfterStep4 /\ has_upper_bound(self) /\ has_upper_threshold(self) =>
        /\ pc = "done"
        /\ \A i \in Idx(win.cm_future) :
            LET x == win.log[1].args[1][i]
                y == win.cm_future[i]
            IN  /\ x >= self.upper_threshold
                    => y >= self.upper_threshold /\ y <= self.upper_bound
                /\ x > self.lower_threshold /\ x < self.upper_threshold => y = x
                /\ x <= self.lower_threshold => y <= self.lower_threshold

\* C24: with a lower bound and a lower threshold configured, step4 returns an
\* array of the same length; the positions whose value was <= lower_threshold
\* hold values in [lower_bound, lower_threshold], in the rank order the
\* positions had.
C24_LowerSideRankOrder ==
    AfterStep4 /\ has_lower_bound(self) /\ has_lower_threshold(self) =>
        /\ pc = "done"
        /\ Len(win.cm_future) = Len(win.log[1].args[1])
        /\ \A i \in Idx(win.cm_future) :
            LET x == win.log[1].args[1]
                y == win.cm_future
            IN  x[i] <= self.lower_threshold =>
                    /\ y[i] >= self.lower_bound /\ y[i] <= self.lower_threshold
                    /\ \A j \in Idx(x) :
                        x[j] <= self.lower_threshold /\ x[i] < x[j] => y[i] <= y[j]

\* C24 where no upper bound and threshold are configured, which holds
C24_LowerSideAlone ==
    ~(has_upper_bound(self) /\ has_upper_threshold(self)) => C24_LowerSideRankOrder

(***************************************************************************)
(* Claims about the fractions and the counts of step 6, checked under      *)
(* SpecCount.  A fraction a/b is written with its numerator and its        *)
(* denominator, and an equation between fractions is cross-multiplied.     *)
(***************************************************************************)
\* the fraction p equals num / den, for den > 0
FracIs(p, num, den) == p.den # 0 /\ p.num * den = num * p.den

C29_CountWithinSeries ==
    /\ result.returned =>
        /\ \A P \in { result.value.P_obs_hist, result.value.P_cm_hist,
                      result.value.P_cm_future, result.value.P_obs_future } :
            P.den > 0 /\ 0 <= P.num /\ P.num <= P.den
        /\ result.value.nr \in 0..args.cm_future.size
    /\ pc = "done" =>
        /\ debiased_cm_future.lower \subseteq 1..args.cm_future.size
        /\ debiased_cm_future.upper \subseteq 1..args.cm_future.size
        /\ Cardinality(debiased_cm_future.lower) = result.value.nr
        /\ Cardinality(debiased_cm_future.upper) = result.value.nr

\* C29 witness: a count strictly between 0 and n, rounded from 3 * 1/2 to 2
C29_Witness ==
    /\ pc = "done"
    /\ args.cm_future.size = 3
    /\ FracIs(result.value.P_obs_future, 1, 2)
    /\ result.value.nr = 2
    /\ debiased_cm_future = [lower |-> {1, 2}, upper |-> {2, 3}]

(***************************************************************************)
(* Claims about the threshold metrics, checked under SpecDays.             *)
(***************************************************************************)
\* the exceedances of metric m in the days of dataset d labelled with year y
ExceedancesOfYear(m, d, y) ==
    Cardinality({ i \in Idx(d.v) : year(d.time)[i] = y
                    /\ calculate_instances_of_threshold_exceedance(m, d.v)[i] = 1 })

\* the rows of _yearly_exceedances are the counts of the distinct years
OneRowPerYear(m, d) ==
    _yearly_exceedances(m, d.v, d.time)
        = [ k \in Idx(UniqueYears(year(d.time))) |->
                ExceedancesOfYear(m, d, UniqueYears(year(d.time))[k]) ]

\* C30: for time arrays ordered by year, _yearly_exceedances returns one row
\* per distinct year, the count of the exceedances of that year, a single
\* year included, and the mean that calculate_bias_days_metrics reports for
\* the climate model and for the observations is the number of exceedances
\* divided by the number of distinct years.
C30_RowPerYear ==
    pc = "returned" =>
        \A k \in Idx(marginal.plot_data) :
            LET row == marginal.plot_data[k]
                m == args.metrics[k]
                cm == args.cm_data[row.method]
            IN  /\ OneRowPerYear(m, cm) /\ OneRowPerYear(m, args.obs_data)
                /\ FracIs(row.cm, SumSeq(calculate_instances_of_threshold_exceedance(m, cm.v)),
                          Len(UniqueYears(year(cm.time))))
                /\ FracIs(row.obs, SumSeq(calculate_instances_of_threshold_exceedance(m, args.obs_data.v)),
                          Len(UniqueYears(year(args.obs_data.time))))

\* C30 for datasets of two years or more, which holds
C30_TwoYearsOrMore ==
    (/\ Len(UniqueYears(year(args.obs_data.time))) >= 2
     /\ \A j \in Idx(args.cm_data) : Len(UniqueYears(year(args.cm_data[j].time))) >= 2)
        => C30_RowPerYear

====
